---- MODULE Spec2Model ----
(***************************************************************************)
(* Model of the workflow orchestration engine: the iteration service       *)
(* (services/be-workflowService.ts, first version in the file) and the     *)
(* loop controller runWorkflowLoop of the App component.                   *)
(*                                                                         *)
(* JavaScript strings are modelled as TLA+ strings; String.prototype       *)
(* methods and the regular expressions of the source are operators over    *)
(* the characters of the string.                                           *)
(***************************************************************************)
EXTENDS Integers, Sequences, FiniteSets, TLC

(***************************************************************************)
(* String primitives (JavaScript built-ins used by the source).            *)
(***************************************************************************)
Min(a, b) == IF a <= b THEN a ELSE b

Max(a, b) == IF a >= b THEN a ELSE b

Ch(s, i) == SubSeq(s, i, i)

\* s.slice(0, n)
SliceTo(s, n) == SubSeq(s, 1, Min(n, Len(s)))

\* s.startsWith(p)
StartsWith(s, p) == Len(p) <= Len(s) /\ SubSeq(s, 1, Len(p)) = p

\* s.endsWith(p), the /...$/ anchor
EndsWith(s, p) == Len(p) <= Len(s) /\ SubSeq(s, Len(s) - Len(p) + 1, Len(s)) = p

\* s.includes(sub)
Includes(s, sub) == \E k \in 1..(Len(s) - Len(sub) + 1) : SubSeq(s, k, k + Len(sub) - 1) = sub

\* \s of a regular expression, and the characters trim() removes
IsSpace(c) == c \in {" ", "\n", "\t", "\r"}

\* \d of a regular expression
IsDigit(c) == c \in {"0", "1", "2", "3", "4", "5", "6", "7", "8", "9"}

DigitVal(c) ==
  CASE c = "0" -> 0 [] c = "1" -> 1 [] c = "2" -> 2 [] c = "3" -> 3 [] c = "4" -> 4
    [] c = "5" -> 5 [] c = "6" -> 6 [] c = "7" -> 7 [] c = "8" -> 8 [] OTHER -> 9

LowerChar(c) ==
  CASE c = "A" -> "a" [] c = "B" -> "b" [] c = "C" -> "c" [] c = "D" -> "d" [] c = "E" -> "e"
    [] c = "F" -> "f" [] c = "G" -> "g" [] c = "H" -> "h" [] c = "I" -> "i" [] c = "J" -> "j"
    [] c = "K" -> "k" [] c = "L" -> "l" [] c = "M" -> "m" [] c = "N" -> "n" [] c = "O" -> "o"
    [] c = "P" -> "p" [] c = "Q" -> "q" [] c = "R" -> "r" [] c = "S" -> "s" [] c = "T" -> "t"
    [] c = "U" -> "u" [] c = "V" -> "v" [] c = "W" -> "w" [] c = "X" -> "x" [] c = "Y" -> "y"
    [] c = "Z" -> "z" [] OTHER -> c

\* s.toLowerCase(); halves the string so that the recursion stays shallow
RECURSIVE ToLower(_)
ToLower(s) ==
  IF Len(s) = 0 THEN ""
  ELSE IF Len(s) = 1 THEN LowerChar(s)
  ELSE LET h == Len(s) \div 2
       IN  ToLower(SubSeq(s, 1, h)) \o ToLower(SubSeq(s, h + 1, Len(s)))

\* the first position from k on that holds no whitespace, Len(s) + 1 if none
RECURSIVE SpaceEnd(_, _)
SpaceEnd(s, k) ==
  IF k > Len(s) \/ ~IsSpace(Ch(s, k)) THEN k ELSE SpaceEnd(s, k + 1)

\* the last position up to k that holds no whitespace, 0 if none
RECURSIVE SpaceStart(_, _)
SpaceStart(s, k) ==
  IF k < 1 \/ ~IsSpace(Ch(s, k)) THEN k ELSE SpaceStart(s, k - 1)

\* s.trim()
Trim(s) == SubSeq(s, SpaceEnd(s, 1), SpaceStart(s, Len(s)))

\* parseInt(digits, 10) of a non-empty run of digits
RECURSIVE ParseInt(_)
ParseInt(d) ==
  IF Len(d) = 0 THEN 0
  ELSE 10 * ParseInt(SubSeq(d, 1, Len(d) - 1)) + DigitVal(Ch(d, Len(d)))

\* the first position from k on that holds no digit, Len(s) + 1 if none
RECURSIVE DigitsEnd(_, _)
DigitsEnd(s, k) ==
  IF k > Len(s) \/ ~IsDigit(Ch(s, k)) THEN k ELSE DigitsEnd(s, k + 1)

\* the longest run of digits of s that starts at position k: the (\d+) group
DigitsAt(s, k) == SubSeq(s, k, DigitsEnd(s, k) - 1)

NoMatch == -1

\* progress.match(/step (\d+)/i): the number of the leftmost match, or NoMatch
MatchStepSingle(progress) ==
  LET leftmost(low, hits) ==
        IF hits = {} THEN NoMatch
        ELSE ParseInt(DigitsAt(low, 5 + CHOOSE a \in hits : \A b \in hits : a <= b))
      match(low) ==
        leftmost(low, {k \in 1..Len(low) : /\ k + 5 <= Len(low)
                                           /\ SubSeq(low, k, k + 4) = "step "
                                           /\ IsDigit(Ch(low, k + 5))})
  IN  match(ToLower(progress))

\* progress.match(/step\s+(\d+)/i): the number of the leftmost match, or NoMatch
MatchStepSpaces(progress) ==
  LET numberAt(low, k0) == ParseInt(DigitsAt(low, SpaceEnd(low, k0 + 4)))
      leftmost(low, hits) ==
        IF hits = {} THEN NoMatch
        ELSE numberAt(low, CHOOSE a \in hits : \A b \in hits : a <= b)
      match(low) ==
        leftmost(low, {k \in 1..Len(low) : /\ k + 4 <= Len(low)
                                           /\ SubSeq(low, k, k + 3) = "step"
                                           /\ IsSpace(Ch(low, k + 4))
                                           /\ SpaceEnd(low, k + 4) <= Len(low)
                                           /\ IsDigit(Ch(low, SpaceEnd(low, k + 4)))})
  IN  match(ToLower(progress))

\* array.join(sep) on a sequence of strings
RECURSIVE Join(_, _)
Join(seq, sep) ==
  IF seq = <<>> THEN ""
  ELSE IF Len(seq) = 1 THEN seq[1]
  ELSE seq[1] \o sep \o Join(Tail(seq), sep)

(***************************************************************************)
(* The iteration service, services/be-workflowService.ts.                  *)
(*                                                                         *)
(* A WorkflowState is the record                                           *)
(*   [goal, maxIterations, currentIteration, status, runLog,               *)
(*    state : [goal, steps, initialPlan, artifacts, notes, progress],      *)
(*    finalResultMarkdown, finalResultSummary, resultType]                 *)
(* with runLog a sequence of [iteration, agent, summary] and artifacts a   *)
(* sequence of [key, value].  An absent resultType and an absent           *)
(* initialPlan are "" and <<>>.                                            *)
(***************************************************************************)
_appendNote(existing, addition) ==
  IF existing = "" THEN addition ELSE existing \o " | " \o addition

\* the map callback of _enforceRunLogFormat
FormatEntry(entry) ==
  LET trimmedSummary == Trim(entry.summary)
      prefix == entry.agent \o ":"
  IN  IF StartsWith(ToLower(SliceTo(trimmedSummary, Len(prefix))), ToLower(prefix))
      THEN [entry EXCEPT !.summary = trimmedSummary]
      ELSE [entry EXCEPT !.summary = prefix \o " " \o trimmedSummary]

_enforceRunLogFormat(entries) == [k \in 1..Len(entries) |-> FormatEntry(entries[k])]

_detectStepNumber(state) ==
  LET number(m) == IF m # NoMatch THEN m ELSE 0
  IN  number(MatchStepSpaces(state.state.progress))

\* /readme\.md$/i
IsReadmeKey(key) == EndsWith(ToLower(key), "readme.md")

\* /result\.(html|md|csv)$/i
IsResultFileKey(key) ==
  \E ext \in {"html", "md", "csv"} : EndsWith(ToLower(key), "result." \o ext)

\* /step_\d+_/ at the start of a lower-cased key, followed by one of the words
IsStepKeyWith(keyLower, words) ==
  /\ StartsWith(keyLower, "step_")
  /\ Len(DigitsAt(keyLower, 6)) > 0
  /\ LET rest == SubSeq(keyLower, 6 + Len(DigitsAt(keyLower, 6)), Len(keyLower))
     IN  \E w \in words : StartsWith(rest, "_" \o w)

\* processArtifactPatterns.some(pattern => pattern.test(keyLower))
IsProcessKey(key) ==
  LET keyLower == ToLower(key)
  IN  \/ StartsWith(keyLower, "rag_")
      \/ StartsWith(keyLower, "internet_")
      \/ Includes(keyLower, "notes")
      \/ EndsWith(keyLower, "query")
      \/ keyLower = "plan.md"
      \/ keyLower = "requirements.md"
      \/ IsStepKeyWith(keyLower, {"plan", "refined", "goal"})
      \/ IsStepKeyWith(keyLower, {"requirement"})
      \/ Includes(keyLower, "summary")

\* contentArtifactPatterns.some(p => p.test(a.key))
IsContentKey(key) ==
  LET keyLower == ToLower(key)
  IN  \/ StartsWith(keyLower, "result.")
      \/ StartsWith(keyLower, "final")
      \/ keyLower = "readme.md"
      \/ Includes(keyLower, "colors")
      \/ Includes(keyLower, "output")
      \/ Includes(keyLower, "answer")
      \/ Includes(keyLower, "findings")

IsContentArtifact(a) == IsContentKey(a.key)

IsOtherArtifact(a) == ~IsContentKey(a.key)

\* a variant that lets every artifact into the README, process artifacts included
KeepsEveryArtifact(a) == TRUE

IsNotProcessArtifact(a) == ~IsProcessKey(a.key)

\* one section of the assembled README, "" when the body is empty
ReadmeSection(a) ==
  LET body == Trim(a.value)
  IN  IF body = "" THEN "" ELSE "## " \o a.key \o "\n" \o body \o "\n"

IsNonEmptyString(str) == str # ""

_autoAssembleReadme(goal, artifacts) ==
  LET \* the stable sort puts the prioritized keys first and keeps the order otherwise
      prioritized(contentArtifacts) ==
        SelectSeq(contentArtifacts, IsContentArtifact)
          \o SelectSeq(contentArtifacts, IsOtherArtifact)
      sections(sorted) ==
        SelectSeq([k \in 1..Len(sorted) |-> ReadmeSection(sorted[k])], IsNonEmptyString)
  IN  "# " \o goal \o "\n\n"
        \o Join(sections(prioritized(SelectSeq(artifacts, IsNotProcessArtifact))), "\n")

\* the entry addQAWarning pushes
QAWarningEntry(previousState, message) ==
  [iteration |-> previousState.currentIteration + 1, agent |-> "QA", summary |-> "QA: " \o message]

MissingArtifactMessage(stepNum) ==
  "Step " \o ToString(stepNum) \o ": No new artifacts created; each step must produce at least one artifact."

MissingAssemblyMessage(stepNum) ==
  "Step " \o ToString(stepNum) \o ": Final assembly missing. Perform RAG over all prior artifacts (ignore process notes), extract goal-relevant content, append human-readable paragraphs per step into README.md, and emit README.md/result.*."

MissingSummaryMessage(stepNum) ==
  "Step " \o ToString(stepNum) \o ": Final summary missing. Summarize README.md into finalResultSummary and finalResultMarkdown, and create a summary artifact (e.g., result_summary.md) for UI display."

RECURSIVE AppendNotes(_, _)
AppendNotes(notes, messages) ==
  IF messages = <<>> THEN notes
  ELSE AppendNotes(_appendNote(notes, Head(messages)), Tail(messages))

HasKey(artifacts, Test(_)) == \E k \in 1..Len(artifacts) : Test(artifacts[k].key)

\* artifacts.find(a => Test(a.key)); only used where HasKey holds
FindKey(artifacts, Test(_)) ==
  artifacts[CHOOSE k \in 1..Len(artifacts) :
              Test(artifacts[k].key) /\ \A j \in 1..(k - 1) : ~Test(artifacts[j].key)]

IsFinalKey(key) == Includes(ToLower(key), "final")

IsSummaryKey(key) == Includes(ToLower(key), "summary")

IsAssemblyKey(key) == IsResultFileKey(key) \/ IsFinalKey(key) \/ IsReadmeKey(key)

\* The value written to newState.status, the entries pushed onto newState.runLog
\* and the notes written to newState.state.notes are not in the returned state:
\* the function returns its locals status, runLog and notes, taken before.
_validateArtifactsAndFinals(previousState, newState) ==
  LET totalSteps == Len(newState.state.steps)
      \* 323-327: v.state is newState as mutated so far, v.messages the warnings
      counted(stepNum) ==
        [state |-> newState,
         messages |-> IF /\ stepNum > 0
                         /\ stepNum < totalSteps
                         /\ Len(newState.state.artifacts) <= Len(previousState.state.artifacts)
                      THEN <<MissingArtifactMessage(stepNum)>> ELSE <<>>]
      \* 329-348
      assembled(stepNum, v) ==
        IF /\ totalSteps > 0
           /\ stepNum = totalSteps - 1
           /\ \/ ~HasKey(v.state.state.artifacts, IsAssemblyKey)
              \/ ~HasKey(v.state.state.artifacts, IsReadmeKey)
        THEN [v EXCEPT
                !.state.state.artifacts =
                   Append(@, [key |-> "README.md",
                              value |-> _autoAssembleReadme(newState.goal, @)]),
                !.messages = Append(@, MissingAssemblyMessage(stepNum))]
        ELSE v
      \* 358-371
      summarized(s, readmeValue) ==
        [s EXCEPT
           !.finalResultMarkdown = IF @ = "" THEN readmeValue ELSE @,
           !.finalResultSummary = IF @ = "" THEN SliceTo(readmeValue, 1200) ELSE @,
           !.state.artifacts =
              Append(@, [key |-> "result_summary.md",
                         value |-> IF s.finalResultSummary = ""
                                   THEN SliceTo(readmeValue, 1200)
                                   ELSE s.finalResultSummary])]
      \* 356-371
      derived(s) ==
        IF /\ HasKey(s.state.artifacts, IsReadmeKey)
           /\ FindKey(s.state.artifacts, IsReadmeKey).value # ""
        THEN summarized(s, FindKey(s.state.artifacts, IsReadmeKey).value)
        ELSE s
      \* 350-379
      finalized(stepNum, v) ==
        IF /\ totalSteps > 0
           /\ stepNum = totalSteps
           /\ \/ Trim(v.state.finalResultSummary) = ""
              \/ Trim(v.state.finalResultMarkdown) = ""
              \/ ~HasKey(v.state.state.artifacts, IsSummaryKey)
        THEN [v EXCEPT !.state = derived(@),
                       !.messages = Append(@, MissingSummaryMessage(stepNum))]
        ELSE v
      \* 381-389
      result(v) ==
        [v.state EXCEPT
           !.status = IF v.messages = <<>> THEN newState.status ELSE "running",
           !.runLog = newState.runLog
                        \o [k \in 1..Len(v.messages) |->
                              QAWarningEntry(previousState, v.messages[k])],
           !.state.notes = AppendNotes(newState.state.notes, v.messages)]
      validate(stepNum) == result(finalized(stepNum, assembled(stepNum, counted(stepNum))))
  IN  validate(_detectStepNumber(newState))

\* a variant that leaves the run log of the final step as it is
_keepFinalStepLog(state) == state

\* lines 274-302
_enforceFinalStepRules(state) ==
  LET totalSteps == Len(state.state.steps)
      stepNum == _detectStepNumber(state)
      n == Len(state.runLog)
      relabel == n > 0 /\ ToLower(state.runLog[n].agent) = "qa"
      runLog == IF relabel
                THEN [state.runLog EXCEPT ![n] =
                        [state.runLog[n] EXCEPT
                           !.agent = "Worker",
                           !.summary = "Worker (final step): " \o state.runLog[n].summary]]
                ELSE state.runLog
  IN  IF totalSteps = 0 \/ stepNum < totalSteps THEN state
      ELSE [state EXCEPT
              !.runLog = _enforceRunLogFormat(runLog),
              !.state.notes = IF relabel
                              THEN _appendNote(state.state.notes,
                                     "Final step: QA skipped; treated as Worker completion.")
                              ELSE state.state.notes]

(***************************************************************************)
(* A parsed reply `raw` is a record of the same shape as a WorkflowState    *)
(* plus raw.bad, the set of the fields whose JSON value is missing or of   *)
(* the wrong type, and a wellFormed flag on each runLog entry (integer     *)
(* iteration, string agent and summary).                                   *)
(***************************************************************************)
\* a variant that lets one more status through
allowedStatusesAndFinished ==
  {"running", "completed", "needs_clarification", "error", "finished"}

\* line 393
allowedStatuses == {"running", "completed", "needs_clarification", "error"}

DefaultMaxIterations == 10

IsWellFormedEntry(e) == e.wellFormed

StripEntry(e) == [iteration |-> e.iteration, agent |-> e.agent, summary |-> e.summary]

_normalizeWorkflowState(raw, fallbackGoal) ==
  LET good(field) == field \notin raw.bad
      kept == SelectSeq(raw.runLog, IsWellFormedEntry)
  IN  [goal |-> IF good("goal") THEN raw.goal ELSE fallbackGoal,
       maxIterations |-> IF good("maxIterations") THEN raw.maxIterations ELSE DefaultMaxIterations,
       currentIteration |-> IF good("currentIteration") THEN raw.currentIteration ELSE 0,
       status |-> IF good("status") /\ raw.status \in allowedStatuses THEN raw.status ELSE "running",
       runLog |-> IF good("runLog")
                  THEN _enforceRunLogFormat([k \in 1..Len(kept) |-> StripEntry(kept[k])])
                  ELSE <<>>,
       state |-> [goal |-> IF good("state.goal") THEN raw.state.goal ELSE fallbackGoal,
                  steps |-> IF good("state.steps") THEN raw.state.steps ELSE <<>>,
                  initialPlan |-> IF good("state.initialPlan") THEN raw.state.initialPlan ELSE <<>>,
                  artifacts |-> IF good("state.artifacts") THEN raw.state.artifacts ELSE <<>>,
                  notes |-> IF good("state.notes") THEN raw.state.notes ELSE "",
                  progress |-> IF good("state.progress") THEN raw.state.progress ELSE ""],
       finalResultMarkdown |-> IF good("finalResultMarkdown") THEN raw.finalResultMarkdown ELSE "",
       finalResultSummary |-> IF good("finalResultSummary") THEN raw.finalResultSummary ELSE "",
       resultType |-> IF good("resultType") /\ raw.resultType \in {"code", "text", "table"}
                      THEN raw.resultType ELSE ""]

(***************************************************************************)
(* Retrieval over the artifacts, _executeRAG.                              *)
(***************************************************************************)
\* content.split(/\n\s*\n/) from position `from`: a separator is a newline, the
\* whitespace after it and the last newline of that whitespace
RECURSIVE SplitParagraphs(_, _)
SplitParagraphs(content, from) ==
  LET seps == {k \in from..Len(content) :
                 /\ Ch(content, k) = "\n"
                 /\ \E l \in (k + 1)..(SpaceEnd(content, k + 1) - 1) : Ch(content, l) = "\n"}
  IN  IF seps = {} THEN <<SubSeq(content, from, Len(content))>>
      ELSE LET k0 == CHOOSE a \in seps : \A b \in seps : a <= b
               nls == {l \in (k0 + 1)..(SpaceEnd(content, k0 + 1) - 1) : Ch(content, l) = "\n"}
               l0 == CHOOSE a \in nls : \A b \in nls : a >= b
           IN  <<SubSeq(content, from, k0 - 1)>> \o SplitParagraphs(content, l0 + 1)

\* the first position from k on that holds whitespace, Len(text) + 1 if none
RECURSIVE WordEnd(_, _)
WordEnd(text, k) ==
  IF k > Len(text) \/ IsSpace(Ch(text, k)) THEN k ELSE WordEnd(text, k + 1)

\* new Set(text.split(/\s+/)) without the empty string
WordSet(text) ==
  LET starts == {a \in 1..Len(text) :
                   ~IsSpace(Ch(text, a)) /\ (a = 1 \/ IsSpace(Ch(text, a - 1)))}
  IN  {SubSeq(text, a, WordEnd(text, a) - 1) : a \in starts}

IsLongChunk(p) == Len(Trim(p)) > 10

ChunkScore(chunk, queryWords) == Cardinality(queryWords \cap WordSet(ToLower(chunk)))

\* the first `count` chunks in the order of scoredChunks.sort((a, b) => b.score - a.score)
RECURSIVE TopChunks(_, _, _)
TopChunks(chunks, queryWords, count) ==
  IF count = 0 \/ chunks = <<>> THEN <<>>
  ELSE LET best == CHOOSE k \in 1..Len(chunks) :
                     /\ \A j \in 1..Len(chunks) :
                          ChunkScore(chunks[j], queryWords) <= ChunkScore(chunks[k], queryWords)
                     /\ \A j \in 1..(k - 1) :
                          ChunkScore(chunks[j], queryWords) < ChunkScore(chunks[k], queryWords)
           IN  <<chunks[best]>>
                 \o TopChunks(SubSeq(chunks, 1, best - 1) \o SubSeq(chunks, best + 1, Len(chunks)),
                              queryWords, count - 1)

_executeRAG(query, content) ==
  IF query = "" \/ content = "" THEN "No query or content provided for search."
  ELSE LET chunks == SelectSeq(SplitParagraphs(content, 1), IsLongChunk)
           answer(topChunks) ==
             IF topChunks = <<>>
             THEN "No relevant information found in the document for your query."
             ELSE "Here are the most relevant snippets from the document:\n\n---\n\n"
                    \o Join(topChunks, "\n\n---\n\n")
           search(queryWords) ==
             LET scores(chunk) == ChunkScore(chunk, queryWords) > 0
             IN  IF queryWords = {}
                 THEN "Query is too generic. Please provide more specific keywords."
                 ELSE answer(TopChunks(SelectSeq(chunks, scores), queryWords, 3))
       IN  search({w \in WordSet(ToLower(query)) : Len(w) > 2})

(***************************************************************************)
(* The tool executor and the two results of runWorkflowIteration.          *)
(***************************************************************************)
IsRagQueryKey(key) == key = "rag_query"

IsInternetQueryKey(key) == key = "internet_query"

IsRagResultsKey(key) == key = "rag_results"

IsInternetResultsKey(key) == key = "internet_results"

IsNotRagQuery(a) == a.key # "rag_query"

IsNotInternetQuery(a) == a.key # "internet_query"

ArtifactBlock(a) == "[" \o a.key \o "]\n" \o a.value \o "\n\n"

\* lines 616-635: the rag_query branch
ExecuteRagQuery(newState, iterIndex, ragContent) ==
  LET query == FindKey(newState.state.artifacts, IsRagQueryKey).value
      artifacts == SelectSeq(newState.state.artifacts, IsNotRagQuery)
      allArtifactsContent ==
        Join([k \in 1..Len(artifacts) |-> ArtifactBlock(artifacts[k])], "---\n\n")
      combinedContent == IF ragContent # ""
                         THEN allArtifactsContent \o "\n\n[USER DOCUMENT]\n" \o ragContent
                         ELSE allArtifactsContent
  IN  IF Trim(combinedContent) # ""
      THEN [newState EXCEPT
              !.state.artifacts = Append(artifacts, [key |-> "rag_results",
                                                     value |-> _executeRAG(query, combinedContent)]),
              !.state.notes = _appendNote(newState.state.notes,
                                "Search completed for \"" \o query \o "\". Results in 'rag_results'."),
              !.runLog = Append(newState.runLog,
                           [iteration |-> iterIndex, agent |-> "Worker",
                            summary |-> "RAG search for \"" \o query \o "\" added rag_results"])]
      ELSE [newState EXCEPT
              !.state.artifacts = artifacts,
              !.state.notes = _appendNote(newState.state.notes,
                                "No artifacts or documents available to search."),
              !.runLog = Append(newState.runLog,
                           [iteration |-> iterIndex, agent |-> "Worker",
                            summary |-> "RAG search for \"" \o query \o "\" skipped - no content"])]

IsDuckDuckGo(r) == r.source = "DuckDuckGo"

IsWikipedia(r) == r.source = "Wikipedia"

IsOtherSource(r) == r.source # "DuckDuckGo" /\ r.source # "Wikipedia"

RECURSIVE ResultLines(_, _)
ResultLines(results, idx) ==
  IF idx > Len(results) THEN ""
  ELSE ToString(idx) \o ". " \o results[idx].text \o "\n   URL: " \o results[idx].url \o "\n\n"
         \o ResultLines(results, idx + 1)

\* lines 676-718: the text of internet_results for a search response `data`,
\* a record [abstractText, results] with results a sequence of [text, url, source]
FormatSearchResults(query, data) ==
  LET ddgResults == SelectSeq(data.results, IsDuckDuckGo)
      wikiResults == SelectSeq(data.results, IsWikipedia)
      otherResults == SelectSeq(data.results, IsOtherSource)
      resultsText ==
        "# Internet Search Results for: \"" \o query \o "\"\n\n"
          \o (IF data.abstractText # "" THEN "## Summary\n" \o data.abstractText \o "\n\n" ELSE "")
          \o (IF Len(ddgResults) > 0
              THEN "## DuckDuckGo Results (" \o ToString(Len(ddgResults)) \o " found)\n\n"
                     \o ResultLines(ddgResults, 1)
              ELSE "")
          \o (IF Len(wikiResults) > 0
              THEN "## Wikipedia Results (" \o ToString(Len(wikiResults)) \o " found)\n\n"
                     \o ResultLines(wikiResults, 1)
              ELSE "")
          \o (IF Len(otherResults) > 0 /\ Len(ddgResults) = 0 /\ Len(wikiResults) = 0
              THEN "## Search Results (" \o ToString(Len(otherResults)) \o " found)\n\n"
                     \o ResultLines(otherResults, 1)
              ELSE "")
  IN  IF Len(data.results) = 0 /\ data.abstractText = ""
      THEN "No results found for query: \"" \o query
             \o "\". Try broadening your search criteria or using different keywords."
      ELSE Trim(resultsText)

\* a variant in which a failed search aborts the iteration with an error status
ExecuteInternetQueryAborting(newState, iterIndex, search) ==
  IF search.ok THEN newState ELSE [newState EXCEPT !.status = "error"]

\* lines 637-732: the internet_query branch; `search` is the outcome of the
\* request to the search endpoint, [ok, errorMsg, data]
ExecuteInternetQuery(newState, iterIndex, search) ==
  LET query == FindKey(newState.state.artifacts, IsInternetQueryKey).value
      artifacts == SelectSeq(newState.state.artifacts, IsNotInternetQuery)
      totalResults == Len(search.data.results)
  IN  IF search.ok
      THEN [newState EXCEPT
              !.state.artifacts = Append(artifacts, [key |-> "internet_results",
                                                     value |-> FormatSearchResults(query, search.data)]),
              !.state.notes = _appendNote(newState.state.notes,
                                "Internet search completed for \"" \o query \o "\". Found "
                                  \o ToString(totalResults) \o " results; QA validate relevance."),
              !.runLog = Append(newState.runLog,
                           [iteration |-> iterIndex, agent |-> "Worker",
                            summary |-> "Internet search for \"" \o query \o "\" returned "
                                          \o ToString(totalResults) \o " results"])]
      ELSE [newState EXCEPT
              !.state.artifacts = Append(artifacts, [key |-> "internet_results",
                                   value |-> "Internet search failed: " \o search.errorMsg
                                     \o ". Please try a different query or broaden your search criteria."]),
              !.state.notes = _appendNote(newState.state.notes,
                                "Internet search failed for \"" \o query \o "\": " \o search.errorMsg
                                  \o ". QA: Consider recreating with broader search criteria."),
              !.runLog = Append(newState.runLog,
                           [iteration |-> iterIndex, agent |-> "Worker",
                            summary |-> "Internet search failed for \"" \o query \o "\": "
                                          \o search.errorMsg])]

\* a variant that runs the internet_query branch only when no rag_query is there
ToolExecutorEitherQuery(newState, iterIndex, ragContent, search) ==
  IF HasKey(newState.state.artifacts, IsRagQueryKey)
  THEN ExecuteRagQuery(newState, iterIndex, ragContent)
  ELSE IF HasKey(newState.state.artifacts, IsInternetQueryKey)
  THEN ExecuteInternetQuery(newState, iterIndex, search)
  ELSE newState

\* lines 612-732; both query artifacts are looked up before either branch runs
ToolExecutor(newState, iterIndex, ragContent, search) ==
  LET hasRag == HasKey(newState.state.artifacts, IsRagQueryKey)
      hasInternet == HasKey(newState.state.artifacts, IsInternetQueryKey)
      afterInternet(afterRag) ==
        IF hasInternet THEN ExecuteInternetQuery(afterRag, iterIndex, search) ELSE afterRag
  IN  afterInternet(IF hasRag THEN ExecuteRagQuery(newState, iterIndex, ragContent)
                    ELSE newState)

\* a variant that reports the failure in the status alone
FailureStateWithoutNote(currentState, lastErrorMessage) ==
  [currentState EXCEPT !.status = "error"]

\* lines 597-610: the state returned when no attempt produced a reply
FailureState(currentState, lastErrorMessage) ==
  LET failureMessage == "Workflow error: "
                          \o (IF lastErrorMessage # "" THEN lastErrorMessage ELSE "Unknown error")
      failureLog == [iteration |-> currentState.currentIteration + 1, agent |-> "QA",
                     summary |-> failureMessage]
  IN  [currentState EXCEPT
         !.status = "error",
         !.runLog = _enforceRunLogFormat(Append(currentState.runLog, failureLog)),
         !.state.notes = _appendNote(currentState.state.notes, failureMessage)]

\* lines 734-738: the guard, applied to the normalized and tool-augmented reply
StepFinalityGuard(previousState, newState) ==
  _enforceFinalStepRules([_validateArtifactsAndFinals(previousState, newState)
                            EXCEPT !.runLog = _enforceRunLogFormat(@)])

\* lines 612-738: the state returned for a reply that parsed
SuccessState(currentState, raw, ragContent, search) ==
  StepFinalityGuard(currentState,
    ToolExecutor(_normalizeWorkflowState(raw, currentState.goal),
                 currentState.currentIteration + 1, ragContent, search))

(***************************************************************************)
(* The loop controller, runWorkflowLoop of the App component.              *)
(***************************************************************************)
maxStepRetries == 4

deriveStepNum(state, fallbackStep) ==
  LET number(m) == IF m # NoMatch THEN m
                   ELSE IF Len(state.state.steps) > 0
                   THEN Max(1, IF fallbackStep = 0 THEN 1 ELSE fallbackStep)
                   ELSE 0
  IN  number(MatchStepSingle(state.state.progress))

\* a variant that names the step before
WorkingOnStepBefore(n) == "Working on step " \o ToString(n - 1) \o "..."

\* lines 470 and 549: the progress text the loop writes
WorkingOnStep(n) == "Working on step " \o ToString(n) \o "..."

\* stepIterations[stepNum] || 0
IterationsOf(stepIterations, stepNum) ==
  IF stepNum \in DOMAIN stepIterations THEN stepIterations[stepNum] ELSE 0

\* lines 381-423: the part of one loop pass before the provider turn.  The
\* result says whether the pass returned at the backward-step check, and gives
\* the state and the counters the provider turn starts from.
LoopBeforeTurn(state, iter, highest, stepIters) ==
  LET \* 383-385
      labelled(stepNum) ==
        IF stepNum > 0 /\ MatchStepSingle(state.state.progress) = NoMatch
        THEN [state EXCEPT !.state.progress = WorkingOnStep(stepNum)]
        ELSE state
      \* 388-402
      stopped(s, stepNum) ==
        [blocked |-> TRUE,
         currentState |-> s,
         published |-> [s EXCEPT
                          !.status = "error",
                          !.state.progress = "Error: Invalid step progression detected",
                          !.state.notes = "Blocked invalid backward execution to step "
                                            \o ToString(stepNum) \o ". Contact administrator."],
         highestStepReached |-> highest,
         stepIterations |-> stepIters]
      \* 409
      counted(stepNum) ==
        IF stepNum > 0
        THEN [n \in DOMAIN stepIters \cup {stepNum} |->
                IF n = stepNum THEN IterationsOf(stepIters, stepNum) + 1
                ELSE stepIters[n]]
        ELSE stepIters
      \* 414-419
      advanced(s, stepNum, nextStep) ==
        [s EXCEPT
           !.state.progress = WorkingOnStep(nextStep),
           !.state.notes = "Step " \o ToString(stepNum) \o " exceeded "
                             \o ToString(maxStepRetries) \o " iterations. Moving to step "
                             \o ToString(nextStep) \o ".",
           !.runLog = Append(@, [iteration |-> iter, agent |-> "QA",
                                 summary |-> "Auto-advanced from step " \o ToString(stepNum)
                                               \o " to step " \o ToString(nextStep)])]
      goesOn(s, highest1, stepIters1) ==
        [blocked |-> FALSE,
         currentState |-> s,
         published |-> s,
         highestStepReached |-> highest1,
         stepIterations |-> stepIters1]
      \* 408-423
      retried(s, stepNum, highest1, stepIters1) ==
        IF /\ stepNum > 0
           /\ stepNum \in {1, 2}
           /\ stepIters1[stepNum] > maxStepRetries
           /\ stepNum + 1 <= Len(s.state.steps)
        THEN goesOn(advanced(s, stepNum, stepNum + 1), Max(highest1, stepNum + 1), stepIters1)
        ELSE goesOn(s, highest1, stepIters1)
      \* 387-423
      checked(s, stepNum) ==
        IF stepNum > 0 /\ stepNum < highest
        THEN stopped(s, stepNum)
        ELSE retried(s, stepNum, IF stepNum > highest THEN stepNum ELSE highest,
                     counted(stepNum))
      pass(stepNum) == checked(labelled(stepNum), stepNum)
  IN  pass(deriveStepNum(state, highest))

\* lines 432-436: the agent inferred for the entry added when the turn logged nothing
InferredAgent(progressText) ==
  LET low == ToLower(progressText)
  IN  IF Includes(low, "plan") THEN "Planner"
      ELSE IF Includes(low, "qa") \/ Includes(low, "review") THEN "QA"
      ELSE "Worker"

\* lines 492-494
PlanContent(steps) ==
  "# Project Plan\n\n"
    \o Join([k \in 1..Len(steps) |->
               ToString(k) \o ". Step " \o ToString(k) \o " - " \o steps[k]], "\n")
    \o "\n\n## Details\nThis plan outlines the systematic approach to achieve the project goals through "
    \o ToString(Len(steps)) \o " carefully sequenced steps."

\* line 505
RequirementsContent(goal, steps) ==
  "# Requirements Specification\n\n## Project Goal\n" \o goal
    \o "\n\n## Implementation Steps\n1. " \o Join(steps, "\n1. ")
    \o "\n\n## Assumptions\n- Requirements are derived from the stated goal\n- Implementation follows the planned sequence\n- Each step builds upon previous work\n\n## Success Criteria\n- All planned steps completed\n- Final deliverables meet quality standards\n- Workflow executes without backward step regression"

IsPlanMdKey(key) == key = "Plan.md"

IsRequirementsMdKey(key) == key = "Requirements.md"

\* newState.runLog[newState.runLog.length - 1]?.agent, "" when the log is empty
LastAgent(runLog) == IF Len(runLog) = 0 THEN "" ELSE runLog[Len(runLog)].agent

\* a variant that keeps only the log of the reply
mergeRunLogsKeepingReply(a, b) == b

\* line 368: [...a, ...b].filter(Boolean); no entry of a log is falsy
mergeRunLogs(a, b) == a \o b

\* lines 427-567: the part of one loop pass after the provider turn returned
\* `returned`.  `state` is currentState as the turn was started with it, `loc`
\* the loop's local variables.  The result gives the new currentState, the
\* locals, and whether the loop is left (break).
LoopAfterTurn(state, returned, iter, loc) ==
  LET prevArtifacts == state.state.artifacts
      \* 427
      merged == [returned EXCEPT !.runLog = mergeRunLogs(state.runLog, @)]
      \* 432-440
      entryFor(progressText) ==
        [iteration |-> iter, agent |-> InferredAgent(progressText), summary |-> progressText]
      \* 430-441
      logged(s) ==
        IF \E k \in 1..Len(s.runLog) : s.runLog[k].iteration = iter THEN s
        ELSE [s EXCEPT !.runLog =
                Append(@, entryFor(IF s.state.progress # "" THEN s.state.progress
                                   ELSE IF state.state.progress # "" THEN state.state.progress
                                   ELSE "Progress update"))]
      \* 444-450
      started(s) ==
        IF Len(s.state.steps) > 0 /\ MatchStepSpaces(s.state.progress) = NoMatch
        THEN [s EXCEPT
                !.state.progress = "Working on step 1...",
                !.runLog = Append(@, [iteration |-> iter, agent |-> "Planner",
                                      summary |-> "Initialized execution at step 1 after planning."])]
        ELSE s
      \* 453-463; from here on p holds newState (later currentState) and the locals
      isAdded(a) == \A k \in 1..Len(prevArtifacts) : prevArtifacts[k] # a
      committed(s) ==
        [currentState |->
           IF LastAgent(s.runLog) # "QA"
           THEN [s EXCEPT !.state.artifacts = prevArtifacts]
           ELSE [s EXCEPT !.state.artifacts =
                   prevArtifacts \o loc.pendingArtifacts \o SelectSeq(@, isAdded)],
         pendingArtifacts |->
           IF LastAgent(s.runLog) # "QA"
           THEN loc.pendingArtifacts \o SelectSeq(s.state.artifacts, isAdded)
           ELSE <<>>,
         highestStepReached |-> loc.highestStepReached,
         qaIterations |-> loc.qaIterations,
         completionAttempts |-> loc.completionAttempts,
         exit |-> FALSE]
      \* 468-481
      corrected(p, newStepNum) ==
        IF newStepNum > 0 /\ newStepNum < p.highestStepReached
        THEN [p EXCEPT
                !.currentState.state.progress = WorkingOnStep(p.highestStepReached + 1),
                !.currentState.state.notes = @ \o " (Corrected invalid step progression)",
                !.currentState.runLog =
                   Append(@, [iteration |-> iter, agent |-> "QA",
                              summary |-> "Corrected backward move to step "
                                            \o ToString(newStepNum) \o "; advanced to "
                                            \o ToString(p.highestStepReached + 1)]),
                !.highestStepReached = @ + 1]
        ELSE [p EXCEPT !.highestStepReached = IF newStepNum > @ THEN newStepNum ELSE @]
      \* 466-481
      stepped(p) == corrected(p, deriveStepNum(p.currentState, p.highestStepReached))
      \* 484-487
      planned(s) ==
        IF Len(s.state.steps) > 0 /\ Len(s.state.initialPlan) = 0
        THEN [s EXCEPT !.state.initialPlan = s.state.steps]
        ELSE s
      \* 490-499
      withPlan(s) ==
        IF ~HasKey(s.state.artifacts, IsPlanMdKey) /\ Len(s.state.steps) >= 2
        THEN [s EXCEPT !.state.artifacts =
                Append(@, [key |-> "Plan.md", value |-> PlanContent(s.state.steps)])]
        ELSE s
      \* 502-510
      withReqs(s) ==
        IF ~HasKey(s.state.artifacts, IsRequirementsMdKey) /\ Len(s.state.steps) > 0
        THEN [s EXCEPT !.state.artifacts =
                Append(@, [key |-> "Requirements.md",
                           value |-> RequirementsContent(s.goal, s.state.steps)])]
        ELSE s
      \* 484-512
      current(s) == [withReqs(withPlan(planned(s))) EXCEPT !.currentIteration = iter]
      \* 528-539
      finished(s) ==
        [s EXCEPT
           !.status = "completed",
           !.finalResultSummary = IF Trim(@) # "" THEN Trim(@)
                                  ELSE IF s.finalResultMarkdown # ""
                                  THEN SliceTo(s.finalResultMarkdown, 400)
                                  ELSE IF s.state.notes # "" THEN s.state.notes
                                  ELSE "Workflow completed.",
           !.runLog = Append(@, [iteration |-> s.currentIteration, agent |-> "QA",
                                 summary |-> "Final QA loop completed; workflow marked completed with summary."])]
      \* 547-556
      reworked(p, currentStep, nextStep) ==
        IF nextStep > currentStep
        THEN [p EXCEPT
                !.currentState.state.progress = WorkingOnStep(nextStep),
                !.currentState.state.notes = @ \o " Auto-advanced after QA loop limit.",
                !.currentState.runLog =
                   Append(@, [iteration |-> p.currentState.currentIteration, agent |-> "QA",
                              summary |-> "Auto-advanced to step " \o ToString(nextStep)
                                            \o " after QA review limit"]),
                !.highestStepReached = Max(@, nextStep),
                !.qaIterations = 0]
        ELSE [p EXCEPT !.qaIterations = 0]
      \* 524-557, qaIterations already incremented
      judged(p, currentStep, totalSteps) ==
        IF p.qaIterations >= 1 /\ p.currentState.status = "running"
        THEN IF totalSteps > 0 /\ currentStep >= totalSteps
             THEN [p EXCEPT !.currentState = finished(@), !.exit = TRUE]
             ELSE reworked(p, currentStep,
                           IF currentStep > 0
                           THEN Min(currentStep + 1,
                                    IF totalSteps # 0 THEN totalSteps ELSE currentStep + 1)
                           ELSE 0)
        ELSE p
      \* 520-558
      reviewed(p) ==
        IF LastAgent(p.currentState.runLog) = "QA"
        THEN judged([p EXCEPT !.qaIterations = @ + 1],
                    deriveStepNum(p.currentState, p.highestStepReached),
                    Len(p.currentState.state.steps))
        ELSE p
      \* 560-567
      counted(p) ==
        IF p.exit THEN p
        ELSE IF p.currentState.status = "completed"
        THEN [p EXCEPT !.completionAttempts = @ + 1, !.exit = p.completionAttempts + 1 >= 2]
        ELSE [p EXCEPT !.exit = p.currentState.status = "needs_clarification"]
      \* 512-567
      closed(p) ==
        IF p.currentState.status = "error" THEN [p EXCEPT !.exit = TRUE]
        ELSE counted(reviewed(p))
      persisted(p) == [p EXCEPT !.currentState = current(@)]
  IN  closed(persisted(stepped(committed(started(logged(merged))))))

(***************************************************************************)
(* State.                                                                  *)
(*   pc             where the run is: "idle" (no run started), "loop" (at  *)
(*                  the head of the for loop), "turn" (runWorkflowIteration*)
(*                  awaits the provider), "reply" (the provider responded, *)
(*                  the body is being read), "done" (the caller returned)  *)
(*   currentState   the loop's currentState                                *)
(*   workflowState  the state last passed to setWorkflowState              *)
(*   i              the loop counter                                       *)
(*   loc            completionAttempts, qaIterations, highestStepReached   *)
(*                  and pendingArtifacts of the loop                       *)
(*   stepIterations the loop's stepIterations object                       *)
(*   call           the provider turn in progress or last finished: the    *)
(*                  attempt of runWorkflowIteration, the attempt of        *)
(*                  _runOllamaWorkflow, the number of generate calls and   *)
(*                  of transport requests made so far, and how the last    *)
(*                  turn ended (the counts are kept for a failed turn),    *)
(*                  with the outcome of its internet search, if it ran one *)
(*   returned       the state last returned by runWorkflowIteration        *)
(*   response       the parsed body of the provider's response while it is *)
(*                  being processed, NoResponse otherwise                  *)
(*   maxIterations  the maxIterations setting of the component             *)
(*   stepKeys       history: the artifact keys of currentState when the    *)
(*                  step number derived from its progress last changed     *)
(*   provider       settings.provider                                      *)
(*   caller         who called runWorkflowIteration: "loop" (line 426 of   *)
(*                  runWorkflowLoop), "planner" (line 613 of               *)
(*                  handleRunWorkflow, human-guided mode) or "direct" (a   *)
(*                  caller that passes the state and the knowledge text    *)
(*                  itself, as the tests do)                               *)
(*   ragContent     the ragContent argument of runWorkflowIteration        *)
(*   isRunning      the isRunning flag of the component                    *)
(*   isAwaitingApproval  the flag of the component that shows the plan     *)
(*                  approval dialog                                        *)
(*   reads          the FileReader loads of "Run from File" that were      *)
(*                  started and whose onload callback has not run yet      *)
(*   overtaken      the invocations of handleRunWorkflow that were still   *)
(*                  waiting for the provider when a newer invocation       *)
(*                  started: the locals each of them holds                 *)
(***************************************************************************)
VARIABLES pc, currentState, workflowState, i, loc, stepIterations, call, returned,
          response, maxIterations, stepKeys, provider, caller, ragContent, isRunning,
          isAwaitingApproval, reads, overtaken

vars == <<pc, currentState, workflowState, i, loc, stepIterations, call, returned,
          response, maxIterations, stepKeys, provider, caller, ragContent, isRunning,
          isAwaitingApproval, reads, overtaken>>

\* the state of the component beside that of the run
controls == <<isAwaitingApproval, reads, overtaken>>

\* the settings and flags that no action of the run changes
settings == <<maxIterations, provider>>

\* bounds of the model
MaxInitIterations == 2

MaxLoopPasses == 3

\* program constants: attempts of runWorkflowIteration, attempts of _runOllamaWorkflow
attempts == 2

\* a variant with one transport attempt more
transportAttemptsPlusOne == 3 + 1

transportAttempts == 3

Goal == "Summarize X"

Providers == {"gemini", "ollama"}

NoState ==
  [goal |-> "", maxIterations |-> 0, currentIteration |-> 0, status |-> "running",
   runLog |-> <<>>,
   state |-> [goal |-> "", steps |-> <<>>, initialPlan |-> <<>>, artifacts |-> <<>>,
              notes |-> "", progress |-> ""],
   finalResultMarkdown |-> "", finalResultSummary |-> "", resultType |-> ""]

NoCall == [attempt |-> 0, transportAttempt |-> 0, generateCalls |-> 0, transportCalls |-> 0,
           outcome |-> "none", lastError |-> "", searchOutcome |-> "none", searchError |-> ""]

NoResponse == [NoState EXCEPT !.status = "none"]

Keys(artifacts) == {artifacts[k].key : k \in 1..Len(artifacts)}

NoLocals == [completionAttempts |-> 0, qaIterations |-> 0, highestStepReached |-> 0,
             pendingArtifacts |-> <<>>]

\* lines 594-609 of handleRunWorkflow
InitialState(effectiveGoal, effectiveMaxIterations, goalArtifacts) ==
  [goal |-> effectiveGoal, maxIterations |-> effectiveMaxIterations, currentIteration |-> 0,
   status |-> "running", runLog |-> <<>>,
   state |-> [goal |-> effectiveGoal, steps |-> <<>>, initialPlan |-> <<>>,
              artifacts |-> goalArtifacts,
              notes |-> "Initial state. Planner needs to create steps.",
              progress |-> "Processing"],
   finalResultMarkdown |-> "", finalResultSummary |-> "", resultType |-> ""]

Init ==
  /\ pc = "idle"
  /\ currentState = NoState
  /\ workflowState = NoState
  /\ i = 0
  /\ loc = NoLocals
  /\ stepIterations = <<>>
  /\ call = NoCall
  /\ returned = NoState
  /\ response = NoResponse
  /\ maxIterations \in 1..MaxInitIterations
  /\ stepKeys = {}
  /\ provider \in Providers
  /\ caller = "loop"
  /\ ragContent = ""
  /\ isRunning = FALSE
  /\ isAwaitingApproval = FALSE
  /\ reads = 0
  /\ overtaken = <<>>

\* handleRunWorkflow in auto mode: builds the initial state and enters
\* runWorkflowLoop(initialState) with startIteration 1
handleRunWorkflow(goalArtifacts) ==
  /\ pc = "idle"
  /\ pc' = "loop"
  /\ isRunning' = TRUE
  /\ currentState' = InitialState(Goal, maxIterations, goalArtifacts)
  /\ workflowState' = currentState'
  /\ i' = 1
  /\ loc' = NoLocals
  /\ stepIterations' = <<>>
  /\ stepKeys' = Keys(goalArtifacts)
  /\ UNCHANGED <<call, returned, response, settings, controls, caller, ragContent>>

\* handleRunWorkflow in human-guided mode up to the call of runWorkflowIteration
\* (lines 584-613); the Run button is disabled while isRunning
\* (WorkflowInput.tsx:139) and covered by the approval dialog while it is shown
handleRunWorkflowGuided(goalArtifacts) ==
  /\ pc = "idle"
  /\ ~isRunning
  /\ ~isAwaitingApproval
  /\ pc' = "turn"
  /\ caller' = "planner"
  /\ isRunning' = TRUE
  /\ currentState' = InitialState(Goal, maxIterations, goalArtifacts)
  /\ workflowState' = currentState'
  /\ call' = NoCall
  /\ stepKeys' = Keys(goalArtifacts)
  /\ UNCHANGED <<i, loc, stepIterations, returned, response, settings, controls, ragContent>>

\* line 641 of handlePlanApproval: the startIteration it passes
ApprovalStartIteration == 2

\* handlePlanApproval (lines 637-642), bound to the Approve button of the
\* dialog, then runWorkflowLoop(workflowState, 2) up to its for loop
handlePlanApproval ==
  /\ isAwaitingApproval
  /\ pc = "idle"
  /\ isAwaitingApproval' = FALSE
  /\ isRunning' = TRUE
  /\ pc' = "loop"
  /\ caller' = "loop"
  /\ currentState' = workflowState
  /\ i' = ApprovalStartIteration
  /\ loc' = NoLocals
  /\ stepIterations' = <<>>
  /\ stepKeys' = Keys(workflowState.state.artifacts)
  /\ UNCHANGED <<workflowState, call, returned, response, settings, reads, overtaken,
                 ragContent>>

\* handlePlanRejection (lines 644-646), bound to the two Reject buttons
handlePlanRejection ==
  /\ isAwaitingApproval
  /\ isAwaitingApproval' = FALSE
  /\ UNCHANGED <<pc, currentState, workflowState, i, loc, stepIterations, call, returned,
                 response, settings, stepKeys, caller, ragContent, isRunning, reads, overtaken>>

\* runWorkflowIteration(state, settings, knowledge) called on its own
callIteration(state, knowledge) ==
  /\ pc = "idle"
  /\ pc' = "turn"
  /\ caller' = "direct"
  /\ ragContent' = knowledge
  /\ currentState' = state
  /\ call' = NoCall
  /\ UNCHANGED <<workflowState, i, loc, stepIterations, returned, response, settings, controls,
                 stepKeys, isRunning>>

\* one pass of the for loop up to the call of runWorkflowIteration (lines 380-426)
LoopEnter ==
  /\ pc = "loop"
  /\ i <= currentState.maxIterations
  /\ i <= MaxLoopPasses
  /\ LET enter(before) ==
           /\ currentState' = before.currentState
           /\ workflowState' = before.published
           /\ loc' = [loc EXCEPT !.highestStepReached = before.highestStepReached]
           /\ stepIterations' = before.stepIterations
           /\ pc' = IF before.blocked THEN "done" ELSE "turn"
           /\ isRunning' = IF before.blocked THEN FALSE ELSE isRunning
           /\ call' = IF before.blocked THEN call ELSE NoCall
           /\ stepKeys' = IF deriveStepNum(before.currentState, before.highestStepReached)
                               # deriveStepNum(currentState, loc.highestStepReached)
                           THEN Keys(before.currentState.state.artifacts) ELSE stepKeys
     IN  enter(LoopBeforeTurn(currentState, i, loc.highestStepReached, stepIterations))
  /\ UNCHANGED <<i, returned, response, settings, controls, caller, ragContent>>

\* the for loop ends because i exceeds maxIterations (line 380), then finally (575)
LoopExit ==
  /\ pc = "loop"
  /\ i > currentState.maxIterations
  /\ pc' = "done"
  /\ isRunning' = FALSE
  /\ UNCHANGED <<currentState, workflowState, i, loc, stepIterations, call, returned, response,
                 settings, controls, stepKeys, caller, ragContent>>

\* line 614 of handleRunWorkflow
PlannerState(newState) == [newState EXCEPT !.currentIteration = 1]

\* a variant that asks for approval of any plan, the empty one included
HasAnyPlan(plannerState) == TRUE

\* line 617: plannerState.state.steps && plannerState.state.steps.length > 0
HasPlan(plannerState) == Len(plannerState.state.steps) > 0

\* runWorkflowIteration returned `result`: the rest of the loop pass (lines
\* 427-570), or of handleRunWorkflow in human-guided mode (lines 614-632)
TurnReturns(result, finishedCall) ==
  /\ returned' = result
  /\ call' = finishedCall
  /\ response' = NoResponse
  /\ UNCHANGED <<stepIterations, settings, reads, overtaken, caller, ragContent>>
  /\ IF caller = "loop"
     THEN LET leave(after) ==
                /\ currentState' = after.currentState
                /\ workflowState' = after.currentState
                /\ loc' = [completionAttempts |-> after.completionAttempts,
                           qaIterations |-> after.qaIterations,
                           highestStepReached |-> after.highestStepReached,
                           pendingArtifacts |-> after.pendingArtifacts]
                /\ pc' = IF after.exit THEN "done" ELSE "loop"
                /\ i' = IF after.exit THEN i ELSE i + 1
                /\ isRunning' = IF after.exit THEN FALSE ELSE isRunning
                /\ stepKeys' = IF deriveStepNum(after.currentState, after.highestStepReached)
                                    # deriveStepNum(currentState, loc.highestStepReached)
                                THEN Keys(after.currentState.state.artifacts) ELSE stepKeys
                /\ UNCHANGED isAwaitingApproval
          IN  leave(LoopAfterTurn(currentState, result, i, loc))
     ELSE IF caller = "planner"
     THEN /\ workflowState' = PlannerState(result)
          /\ isAwaitingApproval' = (HasPlan(PlannerState(result)) \/ isAwaitingApproval)
          /\ isRunning' = FALSE
          /\ pc' = "idle"
          /\ UNCHANGED <<currentState, i, loc, stepKeys>>
     ELSE /\ pc' = "done"
          /\ UNCHANGED <<currentState, workflowState, i, loc, stepKeys, isRunning,
                         isAwaitingApproval>>

\* one transport request of _runOllamaWorkflow fails (network error, timeout,
\* HTTP error, or a reply that does not parse): lines 500-510, and when it was
\* the last one, lines 512, 587-594 and 597-610
TransportFails(message) ==
  /\ pc = "turn"
  /\ provider = "gemini"
  /\ LET made == [call EXCEPT
                    !.transportCalls = @ + 1,
                    !.generateCalls = IF call.transportAttempt = 0 THEN @ + 1 ELSE @,
                    !.lastError = message]
     IN  IF call.transportAttempt + 1 < transportAttempts
         THEN /\ call' = [made EXCEPT !.transportAttempt = @ + 1]
              /\ UNCHANGED <<pc, currentState, workflowState, i, loc, stepIterations, returned,
                             response, settings, controls, stepKeys, caller, ragContent,
                             isRunning>>
         ELSE IF call.attempt + 1 < attempts
         THEN /\ call' = [made EXCEPT !.transportAttempt = 0, !.attempt = @ + 1]
              /\ UNCHANGED <<pc, currentState, workflowState, i, loc, stepIterations, returned,
                             response, settings, controls, stepKeys, caller, ragContent,
                             isRunning>>
         ELSE TurnReturns(FailureState(currentState, message),
                          [made EXCEPT !.transportAttempt = 0, !.attempt = @ + 1,
                                       !.outcome = "failed"])

\* the provider is not the one the switch of runWorkflowIteration handles: both
\* attempts throw before any request is made (lines 583-594, 597-610)
ProviderUnsupported ==
  /\ pc = "turn"
  /\ provider # "gemini"
  /\ TurnReturns(FailureState(currentState, "Unsupported provider: " \o provider),
                 [call EXCEPT !.attempt = attempts, !.outcome = "failed",
                              !.lastError = "Unsupported provider: " \o provider])

\* a transport request returns an OK response whose body parses to `raw` (lines
\* 487-499); no further request is made in this turn
TransportResponds(raw) ==
  /\ pc = "turn"
  /\ provider = "gemini"
  /\ pc' = "reply"
  /\ response' = raw
  /\ call' = [NoCall EXCEPT !.outcome = "replied"]
  /\ UNCHANGED <<currentState, workflowState, i, loc, stepIterations, returned, settings, controls,
                 stepKeys, caller, ragContent, isRunning>>

\* the reply is normalized, its tool calls are executed and the guard is applied
\* (lines 586, 612-738); `search` is the outcome of the search request, if one
\* is made
ReplyProcessed(search) ==
  /\ pc = "reply"
  /\ TurnReturns(SuccessState(currentState, response, ragContent, search),
                 IF HasKey(_normalizeWorkflowState(response, currentState.goal).state.artifacts,
                           IsInternetQueryKey)
                 THEN [call EXCEPT !.searchOutcome = IF search.ok THEN "ok" ELSE "failed",
                                   !.searchError = search.errorMsg]
                 ELSE call)

(***************************************************************************)
(* The provider's replies.  A reply is any JSON document; the families     *)
(* below enumerate the fields that the code reads.                         *)
(***************************************************************************)
Plan == <<"Clarify requirements", "Draft the report", "Summarize the final product">>

AltPlan == <<"Draft the report", "Clarify requirements">>

\* a reply whose fields all have the right JSON type
Reply(status, steps, initialPlan, progress, artifacts, runLog, finals, budget) ==
  [goal |-> Goal, maxIterations |-> budget, currentIteration |-> 0, status |-> status,
   runLog |-> runLog,
   state |-> [goal |-> Goal, steps |-> steps, initialPlan |-> initialPlan,
              artifacts |-> artifacts, notes |-> "Turn done.", progress |-> progress],
   finalResultMarkdown |-> finals.markdown, finalResultSummary |-> finals.summary,
   resultType |-> finals.resultType,
   bad |-> {}]

NoFinals == [markdown |-> "", summary |-> "", resultType |-> ""]

AllFinals == [markdown |-> "# Report\n\nX is summarized.", summary |-> "X is summarized.",
              resultType |-> "text"]

LogEntry(iter, agent) ==
  [iteration |-> iter, agent |-> agent, summary |-> agent \o ": acted.", wellFormed |-> TRUE]

NoSearch == [ok |-> FALSE, errorMsg |-> "Failed to fetch",
             data |-> [abstractText |-> "", results |-> <<>>]]

NoteArtifact == [key |-> "step_1_findings.md", value |-> "X has three parts."]

RagQuery(q) == [key |-> "rag_query", value |-> q]

InternetQuery(q) == [key |-> "internet_query", value |-> q]

\* the replies of the general loop specification: with the plan in place, the
\* status, the progress text, the agent that logged the turn, and whether an
\* artifact is new; replies that carry no plan or another plan; replies that
\* carry another iteration budget, or none; replies of the Worker that carry a
\* tool request
LoopReplies ==
  { Reply(status, Plan, Plan, progress, artifacts, <<LogEntry(i, agent)>>, NoFinals,
          currentState.maxIterations) :
      status \in {"running", "completed"},
      progress \in {"Processing", "Working on step 1...", "Working on step 2...", "step 0"},
      agent \in {"Worker", "QA"},
      artifacts \in {currentState.state.artifacts,
                     Append(currentState.state.artifacts, NoteArtifact)} }
    \cup
  { Reply("running", plan[1], plan[2], progress, currentState.state.artifacts,
          <<LogEntry(i, "Worker")>>, NoFinals, currentState.maxIterations) :
      plan \in {<< <<>>, <<>> >>, <<Plan, AltPlan>>},
      progress \in {"Processing", "Working on step 1..."} }
    \cup
  { [Reply("running", currentState.state.steps, currentState.state.initialPlan,
           currentState.state.progress, currentState.state.artifacts,
           <<LogEntry(i, "Worker")>>, NoFinals, currentState.maxIterations + 1)
       EXCEPT !.bad = bad] :
      bad \in {{}, {"maxIterations"}} }
    \cup
  { Reply("running", Plan, Plan, "Working on step 1...",
          currentState.state.artifacts \o requests, <<LogEntry(i, "Worker")>>, NoFinals,
          currentState.maxIterations) :
      requests \in {<<NoteArtifact, RagQuery("three parts")>>,
                    <<InternetQuery("protocol news")>>} }

Next ==
  \/ handleRunWorkflow(<<>>)
  \/ LoopEnter
  \/ LoopExit
  \/ TransportFails("Failed to fetch")
  \/ ProviderUnsupported
  \/ \E raw \in LoopReplies : TransportResponds(raw)
  \/ ReplyProcessed(NoSearch)

Spec == Init /\ [][Next]_vars

(***************************************************************************)
(* The loop under replies that carry the plan: the status, the step the    *)
(* progress names, the agent that logged the turn and the artifacts vary.  *)
(***************************************************************************)
RunReplies ==
  { Reply(status, Plan, Plan, progress, artifacts, <<LogEntry(i, agent)>>,
          NoFinals, currentState.maxIterations) :
      status \in {"running", "completed"},
      progress \in {"Working on step 1...", "Working on step 2..."},
      agent \in {"Worker", "QA"},
      artifacts \in {currentState.state.artifacts,
                     Append(currentState.state.artifacts, NoteArtifact)} }
    \cup
  { [Reply("running", Plan, Plan, "Working on step 1...", currentState.state.artifacts,
           <<LogEntry(i, "Worker")>>, NoFinals, currentState.maxIterations)
       EXCEPT !.goal = "Summarize Y", !.state.goal = "Summarize Y"] }
    \cup
  { Reply("needs_clarification", Plan, Plan, "Working on step 1...", artifacts,
          <<LogEntry(i, "Worker")>>, NoFinals, currentState.maxIterations) :
      artifacts \in {currentState.state.artifacts,
                     Append(currentState.state.artifacts, NoteArtifact)} }

NextRun ==
  \/ handleRunWorkflow(<<>>)
  \/ LoopEnter
  \/ LoopExit
  \/ TransportFails("Failed to fetch")
  \/ ProviderUnsupported
  \/ \E raw \in RunReplies : TransportResponds(raw)
  \/ ReplyProcessed(NoSearch)

SpecRun == Init /\ [][NextRun]_vars

(***************************************************************************)
(* Human-guided mode: the Planner's turn, the approval dialog, and the     *)
(* loop from iteration 2.                                                  *)
(***************************************************************************)
NextGuided ==
  \/ handleRunWorkflowGuided(<<>>)
  \/ handlePlanApproval
  \/ handlePlanRejection
  \/ LoopEnter
  \/ LoopExit
  \/ TransportFails("Failed to fetch")
  \/ ProviderUnsupported
  \/ \E raw \in LoopReplies : TransportResponds(raw)
  \/ ReplyProcessed(NoSearch)

SpecGuided == Init /\ [][NextGuided]_vars

(***************************************************************************)
(* runWorkflowIteration called on its own, as the integration tests call   *)
(* it: with a state, and with a knowledge text.                            *)
(***************************************************************************)
\* the knowledge text of the test at lines 176-224 of integration.tests.ts
TestKnowledge == "The main security protocol is to always use HTTPS."

\* a knowledge text of four paragraphs that each hold the word protocol
LongKnowledge ==
  "Alpha protocol is first in line.\n\nBeta protocol is second in line.\n\n"
    \o "Gamma protocol is third in line.\n\nDelta protocol is the last one."

\* a knowledge text whose second paragraph is short
ShortKnowledge == "Security notes follow below.\n\nprotocol"

Knowledge == {"", TestKnowledge, LongKnowledge, ShortKnowledge}

OldRagResults == [key |-> "rag_results", value |-> "No relevant information found in the document for your query."]

DocArtifact == [key |-> "step_1_doc.md", value |-> "HTTPS is the transport protocol in use."]

\* a state on the last step of its plan
FinalStepState ==
  [InitialState(Goal, DefaultMaxIterations, <<DocArtifact>>) EXCEPT
     !.currentIteration = 3, !.state.steps = Plan, !.state.initialPlan = Plan,
     !.state.progress = "Working on step 3...", !.state.notes = "",
     !.runLog = <<[iteration |-> 3, agent |-> "Worker", summary |-> "Worker: acted."]>>]

ServiceStates ==
  { [InitialState(Goal, DefaultMaxIterations, artifacts) EXCEPT !.state.notes = ""] :
      artifacts \in {<<>>, <<DocArtifact>>} }
    \cup {FinalStepState}

\* the replies of the service specification: the tool requests they carry
ServiceReplies ==
  { Reply("running", <<>>, <<>>, "", currentState.state.artifacts \o requests,
          <<>>, NoFinals, currentState.maxIterations) :
      requests \in {<<>>,
                    <<RagQuery("search for protocol")>>,
                    <<RagQuery("is it")>>,
                    <<OldRagResults, RagQuery("search for protocol")>>,
                    <<InternetQuery("protocol news")>>,
                    <<RagQuery("search for protocol"), InternetQuery("protocol news")>>} }
    \cup
  { Reply("running", currentState.state.steps, currentState.state.initialPlan,
          currentState.state.progress, currentState.state.artifacts \o added,
          <<LogEntry(currentState.currentIteration + 1, agent)>>, NoFinals,
          currentState.maxIterations) :
      agent \in {"Worker", "QA"},
      added \in {<<>>, <<NoteArtifact>>} }
    \cup
  { [Reply(status, Plan, Plan, "Working on step 1...",
           Append(currentState.state.artifacts, NoteArtifact), <<>>,
           [AllFinals EXCEPT !.resultType = resultType], currentState.maxIterations)
       EXCEPT !.bad = bad] :
      status \in {"finished", "completed"},
      resultType \in {"chart", "table"},
      bad \in {{},
               {"status", "resultType"},
               {"state.steps", "state.artifacts"},
               {"state.notes", "state.progress"},
               {"goal", "maxIterations", "currentIteration", "status", "runLog", "state.goal",
                "state.steps", "state.initialPlan", "state.artifacts", "state.notes",
                "state.progress", "finalResultMarkdown", "finalResultSummary",
                "resultType"}} }

OkSearch == [ok |-> TRUE, errorMsg |-> "",
             data |-> [abstractText |-> "A protocol is a set of rules.",
                       results |-> <<[text |-> "Protocol", url |-> "https://example.org/p",
                                      source |-> "Wikipedia"]>>]]

\* the failures of the search request: the fetch rejects (lines 651-658), the
\* timeout aborts it (647), the response is not OK (662-665), the payload
\* carries an error (671-673), a value that is no Error is thrown (726)
FailedSearch(errorMsg) == [NoSearch EXCEPT !.errorMsg = errorMsg]

SearchFailures ==
  {NoSearch,
   FailedSearch("This operation was aborted"),
   FailedSearch("HTTP 500: Internal Server Error"),
   FailedSearch("Search failed: upstream unavailable"),
   FailedSearch("Unknown error")}

Searches == SearchFailures \cup {OkSearch}

\* the errors of a transport request: the fetch rejects, the response is not OK
\* (lines 493-496)
TransportErrors == {"Failed to fetch", "AI API error (503): overloaded"}

NextService ==
  \/ \E state \in ServiceStates, knowledge \in Knowledge : callIteration(state, knowledge)
  \/ \E message \in TransportErrors : TransportFails(message)
  \/ ProviderUnsupported
  \/ \E raw \in ServiceReplies : TransportResponds(raw)
  \/ \E search \in Searches : ReplyProcessed(search)

SpecService == Init /\ [][NextService]_vars

(***************************************************************************)
(* The guard as a function: the previous state and the normalized and      *)
(* tool-augmented reply are drawn by InitGuard, applyGuard applies the     *)
(* guard to the state it returned last.                                    *)
(***************************************************************************)
MaxGuardRuns == 2

FindingsArtifact == [key |-> "step_2_findings.md", value |-> "X has three parts."]

ReadmeArtifact == [key |-> "README.md", value |-> "# Report\n\nX is summarized."]

ResultArtifact == [key |-> "result.md", value |-> "# Result\n\nX is summarized."]

SummaryArtifact == [key |-> "result_summary.md", value |-> "X is summarized."]

GuardPreviousStates ==
  { [InitialState(Goal, DefaultMaxIterations, artifacts) EXCEPT
       !.currentIteration = 1, !.state.steps = Plan, !.state.initialPlan = Plan,
       !.state.progress = "Working on step 1...", !.state.notes = ""] :
      artifacts \in {<<[key |-> "Plan.md", value |-> PlanContent(Plan)]>>,
                     <<[key |-> "Plan.md", value |-> PlanContent(Plan)], NoteArtifact>>} }

GuardReplies(previousState) ==
  { Reply(status, Plan, Plan, progress, artifacts, <<LogEntry(2, agent)>>, finals,
          previousState.maxIterations) :
      status \in {"running", "completed"},
      progress \in {"Processing", "Working on step 1...", "Working on step 2...",
                    "Working on step 3..."},
      agent \in {"Worker", "QA"},
      finals \in {NoFinals, AllFinals},
      artifacts \in {previousState.state.artifacts,
                     Append(previousState.state.artifacts, NoteArtifact),
                     Append(previousState.state.artifacts, FindingsArtifact),
                     <<FindingsArtifact>>,
                     previousState.state.artifacts \o <<FindingsArtifact, ResultArtifact>>,
                     previousState.state.artifacts \o <<FindingsArtifact, ReadmeArtifact>>,
                     previousState.state.artifacts
                       \o <<FindingsArtifact, ReadmeArtifact, SummaryArtifact>>} }

InitGuard ==
  /\ pc = "guard"
  /\ caller = "guard"
  /\ currentState \in GuardPreviousStates
  /\ \E raw \in GuardReplies(currentState) :
       returned = ToolExecutor(_normalizeWorkflowState(raw, currentState.goal),
                               currentState.currentIteration + 1, "", NoSearch)
  /\ workflowState = NoState
  /\ i = 0
  /\ loc = NoLocals
  /\ stepIterations = <<>>
  /\ call = NoCall
  /\ response = NoResponse
  /\ maxIterations = 1
  /\ stepKeys = {}
  /\ provider = "gemini"
  /\ ragContent = ""
  /\ isRunning = FALSE
  /\ isAwaitingApproval = FALSE
  /\ reads = 0
  /\ overtaken = <<>>

\* lines 734-738 applied to the state they returned last, with the same
\* previous state; workflowState keeps the state they were applied to
applyGuard ==
  /\ pc = "guard"
  /\ i < MaxGuardRuns
  /\ i' = i + 1
  /\ workflowState' = returned
  /\ returned' = StepFinalityGuard(currentState, returned)
  /\ UNCHANGED <<pc, currentState, loc, stepIterations, call, response, settings, controls, stepKeys,
                 caller, ragContent, isRunning>>

NextGuard == applyGuard

SpecGuard == InitGuard /\ [][NextGuard]_vars

(***************************************************************************)
(* The component under its user actions: Run in either mode, Run from      *)
(* File, Approve and Reject.  A handler runs to its next await in one      *)
(* step; user actions and callbacks are taken while no handler is running  *)
(* or while the current invocation waits for the provider.                 *)
(***************************************************************************)
MaxReads == 1

MaxOvertaken == 1

\* the locals of the invocation of handleRunWorkflow that is in progress
Invocation == [currentState |-> currentState, i |-> i, loc |-> loc, caller |-> caller]

\* the current invocation waits for the response of the provider; a turn for
\* an unsupported provider ends without a request (lines 587-594)
AwaitsProvider == pc = "turn" /\ provider = "gemini"

\* handleRunWorkflow (lines 580-613) called in guidance mode `mode`, up to its
\* first await; the handler does not test isRunning, so that an invocation
\* waiting for the provider keeps waiting beside the new one
handleRunWorkflowIn(mode, goalArtifacts) ==
  /\ pc = "idle" \/ (AwaitsProvider /\ Len(overtaken) < MaxOvertaken)
  /\ overtaken' = IF pc = "idle" THEN overtaken ELSE Append(overtaken, Invocation)
  /\ isRunning' = TRUE
  /\ currentState' = InitialState(Goal, maxIterations, goalArtifacts)
  /\ workflowState' = currentState'
  /\ stepKeys' = Keys(goalArtifacts)
  /\ IF mode = "auto"
     THEN /\ pc' = "loop"
          /\ caller' = "loop"
          /\ i' = 1
          /\ loc' = NoLocals
          /\ stepIterations' = <<>>
          /\ UNCHANGED call
     ELSE /\ pc' = "turn"
          /\ caller' = "planner"
          /\ call' = NoCall
          /\ UNCHANGED <<i, loc, stepIterations>>
  /\ UNCHANGED <<returned, response, settings, isAwaitingApproval, ragContent>>

\* the Run button (WorkflowInput.tsx:137-140), disabled while isRunning and
\* covered by the approval dialog while it is shown
runButton(mode) ==
  /\ ~isRunning
  /\ ~isAwaitingApproval
  /\ handleRunWorkflowIn(mode, <<>>)
  /\ UNCHANGED reads

\* the Run from File button and the file chosen (WorkflowInput.tsx:62-68,
\* 164-174), then handleRunWorkflowFromStateFile up to reader.readAsText
\* (part_010:648-677)
stateFileSelected ==
  /\ ~isRunning
  /\ ~isAwaitingApproval
  /\ pc = "idle" \/ AwaitsProvider
  /\ reads < MaxReads
  /\ reads' = reads + 1
  /\ UNCHANGED <<pc, currentState, workflowState, i, loc, stepIterations, call, returned,
                 response, settings, stepKeys, caller, ragContent, isRunning,
                 isAwaitingApproval, overtaken>>

\* reader.onload (part_010:650-671) for a file that holds a goal and no
\* maxIterations: it calls handleRunWorkflow whatever isRunning is
stateFileLoaded(mode) ==
  /\ reads > 0
  /\ reads' = reads - 1
  /\ handleRunWorkflowIn(mode, <<>>)

\* the provider call of an overtaken invocation fails for good: the rest of its
\* handler (part_010:427-577, or 614-632 in human-guided mode) publishes its
\* state and resets isRunning
OvertakenFails ==
  /\ Len(overtaken) > 0
  /\ pc = "idle" \/ AwaitsProvider
  /\ LET leave(inv, result) ==
           /\ workflowState' = IF inv.caller = "loop"
                                THEN LoopAfterTurn(inv.currentState, result, inv.i,
                                                   inv.loc).currentState
                                ELSE PlannerState(result)
           /\ isAwaitingApproval' = IF inv.caller = "loop" THEN isAwaitingApproval
                                    ELSE (HasPlan(PlannerState(result)) \/ isAwaitingApproval)
     IN  leave(Head(overtaken), FailureState(Head(overtaken).currentState, "Failed to fetch"))
  /\ overtaken' = Tail(overtaken)
  /\ isRunning' = FALSE
  /\ UNCHANGED <<pc, currentState, i, loc, stepIterations, call, returned, response, settings,
                 stepKeys, caller, ragContent, reads>>

\* the replies of the component specification: a turn of the Worker on step 1,
\* with the plan or without one
AppReplies ==
  { Reply("running", plan, plan, "Working on step 1...", currentState.state.artifacts,
          <<LogEntry(i, "Worker")>>, NoFinals, currentState.maxIterations) :
      plan \in {<<>>, Plan} }

InitApp == Init /\ maxIterations = 1

NextApp ==
  \/ \E mode \in {"auto", "human"} : runButton(mode)
  \/ stateFileSelected
  \/ \E mode \in {"auto", "human"} : stateFileLoaded(mode)
  \/ handlePlanApproval
  \/ handlePlanRejection
  \/ OvertakenFails
  \/ LoopEnter
  \/ LoopExit
  \/ TransportFails("Failed to fetch")
  \/ ProviderUnsupported
  \/ \E raw \in AppReplies : TransportResponds(raw)
  \/ ReplyProcessed(NoSearch)

SpecApp == InitApp /\ [][NextApp]_vars

(***************************************************************************)
(* Properties of the loop controller, stated on Spec.                      *)
(***************************************************************************)
\* the step number the loop derives from the progress text of its state
DerivedStep == deriveStepNum(currentState, loc.highestStepReached)

\* the same in the next state
DerivedStepNext == deriveStepNum(currentState', loc'.highestStepReached)

\* a step in which runWorkflowIteration returns to the loop and the pass ends
PassEnds == caller = "loop" /\ pc \in {"turn", "reply"} /\ pc' \in {"loop", "done"}

\* the same, for a turn in which the provider replied
ReplyPassEnds == caller = "loop" /\ pc = "reply" /\ pc' \in {"loop", "done"}

\* C1: a run of the loop makes at most as many passes as the maxIterations
\* setting it was started with, and its status when it has stopped is one of
\* completed, error, needs_clarification.
C1_StopsWithinBudgetInTerminalStatus ==
  (pc = "done" /\ caller = "loop") =>
    /\ workflowState.currentIteration <= maxIterations
    /\ workflowState.status \in {"completed", "error", "needs_clarification"}

\* C2: the step number derived from progress never decreases from the end of
\* one pass to the end of the next.
C2_DerivedStepNeverDecreases ==
  [][PassEnds => DerivedStepNext >= DerivedStep]_vars

\* C4: a state of the loop with status completed has a result type, a final
\* markdown, a final summary and a README-equivalent artifact.
C4_CompletedHasDeliverables ==
  (caller = "loop" /\ workflowState.status = "completed") =>
    /\ workflowState.resultType # ""
    /\ workflowState.finalResultMarkdown # ""
    /\ workflowState.finalResultSummary # ""
    /\ \/ HasKey(workflowState.state.artifacts, IsReadmeKey)
       \/ HasKey(workflowState.state.artifacts, IsResultFileKey)

\* C6: when the derived step number advances past a non-final step, the state
\* holds an artifact whose key was not present when that step began.
C6_PassedStepLeftNewArtifact ==
  [][(/\ caller = "loop"
      /\ DerivedStep >= 1
      /\ DerivedStep < Len(currentState.state.steps)
      /\ DerivedStepNext > DerivedStep)
     => Keys(currentState'.state.artifacts) \ stepKeys # {}]_vars

\* C7: once initialPlan is non-empty it keeps its value through every later
\* pass of the loop.
C7_InitialPlanIsFrozen ==
  [][(caller = "loop" /\ currentState.state.initialPlan # <<>>)
     => currentState'.state.initialPlan = currentState.state.initialPlan]_vars

\* C9: a pass that ends after an earlier pass resulted in status completed is
\* the last one, and the run stops with status completed.
C9_CompletionHonoredAfterOneMorePass ==
  [][(PassEnds /\ loc.completionAttempts >= 1)
     => (pc' = "done" /\ workflowState'.status = "completed")]_vars

\* C10: when the step number derived from a reply is lower than the highest
\* step reached, the pass ends with progress at the step after the high-water
\* mark, a QA entry and a note that record the correction, a status other than
\* error, and the loop goes on unless the reply itself ended the run.
C10_BackwardStepCorrectedAndRunGoesOn ==
  [][(/\ ReplyPassEnds
      /\ deriveStepNum(returned', loc.highestStepReached) < loc.highestStepReached)
     => /\ currentState'.state.progress = WorkingOnStep(loc.highestStepReached + 1)
        /\ \E k \in 1..Len(currentState'.runLog) :
             /\ currentState'.runLog[k].agent = "QA"
             /\ StartsWith(currentState'.runLog[k].summary, "Corrected backward move")
        /\ Includes(currentState'.state.notes, "Corrected invalid step progression")
        /\ currentState'.status # "error"
        /\ (returned'.status = "running" => pc' = "loop")]_vars

\* the check of lines 387-402 never fires within a run of the loop
BackwardCheckNeverFires ==
  workflowState.state.progress # "Error: Invalid step progression detected"

\* the state carries the warning of lines 324-326 in its runLog
MissingArtifactWarned(state) ==
  \E k \in 1..Len(state.runLog) :
    /\ state.runLog[k].agent = "QA"
    /\ Includes(state.runLog[k].summary, "No new artifacts created")

\* C11: when the turn of the previous pass was answered with the
\* missing-artifact warning, the next turn of the loop is issued for the step
\* number that turn was at.
C11_WarnedStepIsRepeated ==
  (/\ caller = "loop"
   /\ pc = "turn"
   /\ i >= 2
   /\ MissingArtifactWarned(returned))
    => DerivedStep = _detectStepNumber(returned)

\* C21: a pass of the loop never leaves a running state on a step of its plan
\* with a QA entry last unless that entry is the loop's own advancement to this
\* step, written after the QA entry of the turn, with the QA counter reset;
\* when the turn returns a running state on step s of 1..N-1 (no step behind
\* the highest reached) whose log ends with a QA entry, the pass ends on step
\* s + 1, still running; and the pass that writes the final QA entry ends the
\* run as completed.
C21_QAReviewAdvancesOrCompletes ==
  [][ReplyPassEnds
     => LET new == currentState'
            n == Len(new.runLog)
            got == returned'
            s == MatchStepSingle(got.state.progress)
        IN  /\ (/\ new.status = "running"
                /\ n > 0
                /\ new.runLog[n].agent = "QA"
                /\ Len(new.state.steps) > 0
                /\ DerivedStepNext >= 1)
                 => /\ new.runLog[n].summary = "Auto-advanced to step "
                          \o ToString(DerivedStepNext) \o " after QA review limit"
                    /\ n > 1
                    /\ new.runLog[n - 1].agent = "QA"
                    /\ loc'.qaIterations = 0
                    /\ pc' = "loop"
            /\ (/\ got.status = "running"
                /\ Len(got.runLog) > 0
                /\ got.runLog[Len(got.runLog)].agent = "QA"
                /\ \E k \in 1..Len(got.runLog) : got.runLog[k].iteration = i
                /\ s # NoMatch
                /\ s >= 1
                /\ s < Len(got.state.steps)
                /\ s >= loc.highestStepReached)
                 => /\ DerivedStepNext = s + 1
                    /\ new.status = "running"
                    /\ new.state.progress = "Working on step " \o ToString(s + 1) \o "..."
            /\ (n > 0 /\ Includes(new.runLog[n].summary, "Final QA loop completed"))
                 => /\ new.status = "completed"
                    /\ pc' = "done"]_vars

\* a run that was advanced after a QA review and then completed by the final
\* QA pass
C21_Witness ==
  /\ caller = "loop"
  /\ pc = "done"
  /\ currentState.status = "completed"
  /\ Includes(currentState.runLog[Len(currentState.runLog)].summary, "Final QA loop completed")
  /\ \E k \in 1..Len(currentState.runLog) :
        Includes(currentState.runLog[k].summary, "after QA review limit")

\* C25: the run log of the loop only grows: in every step of a run, the pass
\* before the call, the rest of the pass after it and the published state
\* included, the run log held before is a prefix of the run log held after.
C25_RunLogIsAppendOnly ==
  [][(caller = "loop" /\ caller' = "loop" /\ pc \in {"loop", "turn", "reply"})
     => /\ Len(currentState'.runLog) >= Len(currentState.runLog)
        /\ SubSeq(currentState'.runLog, 1, Len(currentState.runLog)) = currentState.runLog
        /\ Len(workflowState'.runLog) >= Len(workflowState.runLog)
        /\ SubSeq(workflowState'.runLog, 1, Len(workflowState.runLog))
             = workflowState.runLog]_vars

\* a second pass has ended on a reply and has added to the log of the first
C25_Witness ==
  /\ caller = "loop"
  /\ pc = "loop"
  /\ i = 3
  /\ call.outcome = "replied"
  /\ Len(currentState.runLog) >= 3
  /\ currentState.runLog[1].iteration = 1
  /\ currentState.runLog[Len(currentState.runLog)].iteration = 2

\* C26: in every run state the loop holds, no two artifacts have the same key.
C26_ArtifactKeysAreUnique ==
  caller = "loop"
    => \A m, n \in 1..Len(currentState.state.artifacts) :
         currentState.state.artifacts[m].key = currentState.state.artifacts[n].key => m = n

\* C27: once the state of a run holds steps, every later step of the run keeps
\* them, in their order, at the head of state.steps.
C27_StepsAreKept ==
  [][(caller = "loop" /\ caller' = "loop" /\ pc \in {"loop", "turn", "reply"}
        /\ Len(currentState.state.steps) > 0)
     => /\ Len(currentState'.state.steps) >= Len(currentState.state.steps)
        /\ SubSeq(currentState'.state.steps, 1, Len(currentState.state.steps))
             = currentState.state.steps]_vars

\* C28: the goal of the state of a run is the same after every step of the run
\* as before it.
C28_GoalIsKept ==
  [][(caller = "loop" /\ caller' = "loop" /\ pc \in {"loop", "turn", "reply"})
     => currentState'.goal = currentState.goal]_vars

\* C33: a pass of the loop whose reply reports status needs_clarification ends
\* the run, with status needs_clarification in the run state.
C33_ClarificationRequestStopsLoop ==
  [][(ReplyPassEnds /\ response.status = "needs_clarification")
     => /\ pc' = "done"
        /\ currentState'.status = "needs_clarification"
        /\ workflowState'.status = "needs_clarification"]_vars

\* C34: while the state of a run holds steps, the step number derived from its
\* progress is at least 1 and at most the number of steps.
C34_DerivedStepWithinPlan ==
  (caller = "loop" /\ Len(currentState.state.steps) > 0)
    => /\ deriveStepNum(currentState, loc.highestStepReached) >= 1
       /\ deriveStepNum(currentState, loc.highestStepReached) <= Len(currentState.state.steps)

\* C35: when the loop has stopped, every artifact it held back until a QA
\* turn is among the artifacts of the run state.
C35_HeldArtifactsReachFinalState ==
  (caller = "loop" /\ pc = "done")
    => \A k \in 1..Len(loc.pendingArtifacts) :
         \E j \in 1..Len(workflowState.state.artifacts) :
           workflowState.state.artifacts[j] = loc.pendingArtifacts[k]

\* a step in which the last provider call of a turn of the loop fails
FailedPassEnds == caller = "loop" /\ pc = "turn" /\ call'.outcome = "failed"

\* C14: after a pass whose provider calls all failed, the state of the run has
\* status error, the goal, steps, initialPlan, artifacts and progress it had
\* when the turn began, and the runLog it had then followed by exactly one QA
\* entry that names the failure.
C14_FailedPassKeepsStateAndLogsOnce ==
  [][FailedPassEnds
     => /\ currentState'.status = "error"
        /\ currentState'.goal = currentState.goal
        /\ currentState'.state.steps = currentState.state.steps
        /\ currentState'.state.initialPlan = currentState.state.initialPlan
        /\ currentState'.state.artifacts = currentState.state.artifacts
        /\ currentState'.state.progress = currentState.state.progress
        /\ Len(currentState'.runLog) = Len(currentState.runLog) + 1
        /\ SubSeq(currentState'.runLog, 1, Len(currentState.runLog)) = currentState.runLog
        /\ currentState'.runLog[Len(currentState'.runLog)].agent = "QA"
        /\ Includes(currentState'.runLog[Len(currentState'.runLog)].summary,
                    call'.lastError)]_vars

\* the tool executor logged a run of the tool in the state: the replies of the
\* loop specification carry one entry of their own, so an entry of the executor
\* in the returned state is of the iteration that returned it
ToolRan(state, what) ==
  \E k \in 1..Len(state.runLog) :
    /\ state.runLog[k].agent = "Worker"
    /\ Includes(state.runLog[k].summary, what)

\* C17: when the previous iteration executed a rag_query or an internet_query,
\* the state passed to the provider in this turn holds the rag_results or the
\* internet_results artifact.
C17_ToolResultsReachNextTurn ==
  (caller = "loop" /\ pc = "turn" /\ i >= 2)
    => /\ ToolRan(returned, "added rag_results")
            => HasKey(currentState.state.artifacts, IsRagResultsKey)
       /\ ToolRan(returned, "Internet search")
            => HasKey(currentState.state.artifacts, IsInternetResultsKey)

C31_RejectionDiscardsPlan ==
  [][/\ (isAwaitingApproval /\ ~isAwaitingApproval' /\ pc' = "idle")
          => Len(workflowState'.state.steps) = 0
     /\ (pc = "idle" /\ pc' = "turn")
          => /\ caller' = "planner"
             /\ Len(currentState'.state.steps) = 0]_vars

(***************************************************************************)
(* Properties of the component, stated on SpecApp.                         *)
(***************************************************************************)
\* the provider calls that have been issued and have not returned
ProviderCallsInFlight == Len(overtaken) + (IF AwaitsProvider THEN 1 ELSE 0)

\* C19: under every interleaving of Run, Run from File, Approve, Reject and
\* the provider's responses, at most one provider call is in flight.
C19_OneProviderCallInFlight == ProviderCallsInFlight <= 1

(***************************************************************************)
(* Properties of runWorkflowIteration, stated on SpecService.              *)
(***************************************************************************)
\* C3: a turn in which every provider call failed has made exactly 2 attempts
\* (2 calls of the provider function when the provider is one the switch
\* handles) and has returned a state with status error whose notes contain
\* "Workflow error".
C3_FailedTurnReturnsErrorAfterTwoAttempts ==
  call.outcome = "failed" =>
    /\ call.attempt = 2
    /\ (provider = "gemini" => call.generateCalls = 2)
    /\ pc = "done"
    /\ returned.status = "error"
    /\ Includes(returned.state.notes, "Workflow error")

\* a direct call in which every transport request failed has returned
C3_Witness ==
  /\ pc = "done"
  /\ caller = "direct"
  /\ provider = "gemini"
  /\ call.outcome = "failed"
  /\ call.generateCalls = 2
  /\ returned.status = "error"

\* the paragraphs of a text, as blank-line-delimited blocks
Paragraphs(text) ==
  LET ps == SplitParagraphs(text, 1)
  IN  {ps[k] : k \in 1..Len(ps)} \ {""}

\* the keywords of a query: its lower-cased words of more than 2 characters
Keywords(q) == {w \in WordSet(ToLower(q)) : Len(w) > 2}

HoldsKeyword(paragraph, q) == Keywords(q) \cap WordSet(ToLower(paragraph)) # {}

\* the paragraphs of the corpus of a reply: of the values of its artifacts other
\* than rag_query, and of the knowledge text
CorpusParagraphs(raw, knowledge) ==
  LET others == SelectSeq(raw.state.artifacts, IsNotRagQuery)
  IN  UNION {Paragraphs(others[k].value) : k \in 1..Len(others)} \cup Paragraphs(knowledge)

IsRagResults(a) == a.key = "rag_results"

\* C5: when the reply carries a rag_query artifact with value q, for every
\* paragraph of the corpus that holds a keyword of q the returned state has no
\* rag_query artifact and exactly one rag_results artifact, whose value includes
\* the paragraph.
C5_RagQueryYieldsOneResultWithParagraph ==
  [][(/\ caller = "direct"
      /\ pc = "reply"
      /\ pc' = "done"
      /\ HasKey(response.state.artifacts, IsRagQueryKey))
     => LET q == FindKey(response.state.artifacts, IsRagQueryKey).value
            results == SelectSeq(returned'.state.artifacts, IsRagResults)
        IN  \A p \in CorpusParagraphs(response, ragContent) :
              HoldsKeyword(p, q) =>
                /\ ~HasKey(returned'.state.artifacts, IsRagQueryKey)
                /\ Len(results) = 1
                /\ Includes(results[1].value, p)]_vars

\* C22: a generate call in progress has made at most 2 failed transport
\* attempts, so that it makes at most 3; a failure of the first or second
\* attempt is retried inside the generate call; the failure of the third ends
\* the generate call and hands the error of that attempt to the caller, which
\* puts it into the state it returns when this was its last attempt; once an
\* attempt has succeeded the turn makes no further request.
C22_ThreeTransportAttempts ==
  [][LET attemptFails == /\ pc = "turn"
                         /\ provider = "gemini"
                         /\ call'.transportCalls = call.transportCalls + 1
     IN  /\ pc = "turn" => call.transportAttempt <= 2
         /\ call.transportCalls <= 3 * call.generateCalls
         /\ (attemptFails /\ call.transportAttempt < 2)
              => /\ call'.transportAttempt = call.transportAttempt + 1
                 /\ call'.attempt = call.attempt
                 /\ pc' = "turn"
         /\ (attemptFails /\ call.transportAttempt = 2)
              => /\ call'.transportAttempt = 0
                 /\ call'.attempt = call.attempt + 1
                 /\ call'.transportCalls = 3 * call'.generateCalls
                 /\ IF call.attempt = 0
                    THEN pc' = "turn"
                    ELSE /\ pc' # "turn"
                         /\ call'.outcome = "failed"
                         /\ Includes(returned'.state.notes,
                                     "Workflow error: " \o call'.lastError)
         /\ pc = "reply" => /\ pc' # "turn"
                           /\ call'.transportCalls = call.transportCalls]_vars

\* the third attempt of the first generate call failed with another error than
\* the attempts before it, and the second generate call is in progress
C22_Witness ==
  /\ caller = "direct"
  /\ pc = "turn"
  /\ call.attempt = 1
  /\ call.transportAttempt = 1
  /\ call.transportCalls = 4
  /\ call.lastError = "AI API error (503): overloaded"

\* C23: for every reply that parsed, the normalizer gives a state whose status
\* is one of running, completed, needs_clarification, error, and is running
\* where the reply's status is missing or another value; whose resultType is
\* one of code, text, table, or absent where the reply's is missing or another
\* value; whose steps and artifacts are those of the reply, or empty where the
\* reply's are no arrays; whose notes and progress are those of the reply, or
\* empty where the reply's are no strings; and the turn returns a state, with
\* these steps and this resultType, without failing.
C23_NormalizerCoercesEveryField ==
  [][(caller = "direct" /\ pc = "reply")
     => LET raw == response
            n == _normalizeWorkflowState(raw, currentState.goal)
            statusOk == "status" \notin raw.bad
                          /\ raw.status \in {"running", "completed", "needs_clarification",
                                              "error"}
            typeOk == "resultType" \notin raw.bad /\ raw.resultType \in {"code", "text", "table"}
        IN  /\ n.status = IF statusOk THEN raw.status ELSE "running"
            /\ n.resultType = IF typeOk THEN raw.resultType ELSE ""
            /\ n.state.steps = IF "state.steps" \in raw.bad THEN <<>> ELSE raw.state.steps
            /\ n.state.artifacts
                 = IF "state.artifacts" \in raw.bad THEN <<>> ELSE raw.state.artifacts
            /\ n.state.notes = IF "state.notes" \in raw.bad THEN "" ELSE raw.state.notes
            /\ n.state.progress
                 = IF "state.progress" \in raw.bad THEN "" ELSE raw.state.progress
            /\ pc' = "done"
            /\ call'.outcome = "replied"
            /\ returned'.status \in {"running", "completed", "needs_clarification", "error"}
            /\ returned'.resultType = n.resultType
            /\ returned'.state.steps = n.state.steps]_vars

\* a reply with an unknown status and resultType and with steps and artifacts
\* that are no arrays has been turned into a state
C23_Witness ==
  /\ caller = "direct"
  /\ pc = "done"
  /\ call.outcome = "replied"
  /\ returned.status = "running"
  /\ returned.resultType = ""
  /\ returned.state.steps = <<>>
  /\ returned.state.artifacts = <<>>
  /\ returned.finalResultSummary = "X is summarized."

\* C24: a direct call made with one of the providers openai, claude, ollama,
\* groq selected sends a request to that provider and returns the state built
\* from its reply (so the notes of the returned state are those of the reply),
\* never a failure state built without asking the provider.
C24_NamedProvidersAreAsked ==
  (caller = "direct" /\ pc = "done" /\ provider \in {"openai", "claude", "ollama", "groq"})
    => /\ call.outcome = "replied"
       /\ call.lastError = ""
       /\ returned.status # "error"

\* C32: a turn whose reply carries both a rag_query and an internet_query
\* artifact returns a state with neither query artifact, with one rag_results
\* and one internet_results artifact more than the reply carried, and with one
\* run log entry more for the RAG search and one more for the internet
\* search; the search request has been made in that turn and in no other.
C32_BothQueriesRunOnce ==
  [][(caller = "direct" /\ pc = "reply")
     => LET given == _normalizeWorkflowState(response, currentState.goal)
            both == /\ \E k \in 1..Len(given.state.artifacts) :
                         given.state.artifacts[k].key = "rag_query"
                    /\ \E k \in 1..Len(given.state.artifacts) :
                         given.state.artifacts[k].key = "internet_query"
            count(artifacts, key) ==
              Cardinality({k \in 1..Len(artifacts) : artifacts[k].key = key})
            logged(runLog, words) ==
              Cardinality({k \in 1..Len(runLog) : Includes(runLog[k].summary, words)})
        IN  /\ both =>
                 /\ count(returned'.state.artifacts, "rag_query") = 0
                 /\ count(returned'.state.artifacts, "internet_query") = 0
                 /\ count(returned'.state.artifacts, "rag_results")
                      = count(given.state.artifacts, "rag_results") + 1
                 /\ count(returned'.state.artifacts, "internet_results")
                      = count(given.state.artifacts, "internet_results") + 1
                 /\ logged(returned'.runLog, "RAG search for")
                      = logged(given.runLog, "RAG search for") + 1
                 /\ logged(returned'.runLog, "Internet search")
                      = logged(given.runLog, "Internet search") + 1
                 /\ call'.searchOutcome \in {"ok", "failed"}
            /\ (~\E k \in 1..Len(given.state.artifacts) :
                    given.state.artifacts[k].key = "internet_query")
                 => call'.searchOutcome = "none"]_vars

\* a turn whose reply carried both queries has returned both results
C32_Witness ==
  /\ caller = "direct"
  /\ pc = "done"
  /\ call.searchOutcome = "ok"
  /\ \E k \in 1..Len(returned.state.artifacts) : returned.state.artifacts[k].key = "rag_results"
  /\ \E k \in 1..Len(returned.state.artifacts) :
       /\ returned.state.artifacts[k].key = "internet_results"
       /\ Includes(returned.state.artifacts[k].value, "Wikipedia Results")
  /\ \E k \in 1..Len(returned.runLog) :
       Includes(returned.runLog[k].summary, "RAG search for \"search for protocol\"")

\* C16: whenever the reply carries a rag_query artifact, the returned state
\* has a rag_results artifact and no rag_query artifact, whatever the corpus,
\* the empty one included.
C16_RagQueryAlwaysYieldsResults ==
  [][(/\ caller = "direct"
      /\ pc = "reply"
      /\ pc' = "done"
      /\ HasKey(response.state.artifacts, IsRagQueryKey))
     => /\ HasKey(returned'.state.artifacts, IsRagResultsKey)
        /\ ~HasKey(returned'.state.artifacts, IsRagQueryKey)]_vars

\* the state is on its final step: it has steps and the step number read from
\* its progress is at least their number (lines 275-277)
OnFinalStep(state) ==
  /\ Len(state.state.steps) > 0
  /\ _detectStepNumber(state) >= Len(state.state.steps)

EndsWithQA(state) ==
  /\ Len(state.runLog) > 0
  /\ ToLower(state.runLog[Len(state.runLog)].agent) = "qa"

FailedSearchReturns ==
  /\ caller = "direct"
  /\ pc = "reply"
  /\ pc' = "done"
  /\ call'.searchOutcome = "failed"

IsInternetResults(a) == a.key = "internet_results"

IsFailedSearchResult(a, errorMsg) ==
  /\ a.key = "internet_results"
  /\ a.value = "Internet search failed: " \o errorMsg
                 \o ". Please try a different query or broaden your search criteria."

\* C15: when the internet search of a reply fails, whatever the failure, the
\* iteration returns a state without the internet_query artifact, with one
\* internet_results artifact more than the reply had, the last of them holding
\* the failure message, with a note and a Worker runLog entry that describe the
\* failure, and with the status of the reply unless the guard changed it to
\* running or completed: the failure does not make it "error".
C15_FailedSearchIsReportedInState ==
  [][FailedSearchReturns
     => LET q == FindKey(response.state.artifacts, IsInternetQueryKey).value
            failure == "Internet search failed for \"" \o q \o "\": " \o call'.searchError
            before == SelectSeq(response.state.artifacts, IsInternetResults)
            results == SelectSeq(returned'.state.artifacts, IsInternetResults)
        IN  /\ ~HasKey(returned'.state.artifacts, IsInternetQueryKey)
            /\ Len(results) = Len(before) + 1
            /\ IsFailedSearchResult(results[Len(results)], call'.searchError)
            /\ Includes(returned'.state.notes, failure)
            /\ \E k \in 1..Len(returned'.runLog) :
                  /\ returned'.runLog[k].agent = "Worker"
                  /\ Includes(returned'.runLog[k].summary, failure)
            /\ (response.status # "error" => returned'.status # "error")]_vars

C15_Witness ==
  /\ caller = "direct"
  /\ pc = "done"
  /\ call.searchOutcome = "failed"
  /\ call.searchError = "HTTP 500: Internal Server Error"
  /\ \E k \in 1..Len(returned.state.artifacts) :
        IsFailedSearchResult(returned.state.artifacts[k], call.searchError)

(***************************************************************************)
(* Properties of the guard, stated on SpecGuard.                           *)
(***************************************************************************)
\* the state violates none of the rules of the guard: at a non-final step an
\* artifact key has appeared that the previous state did not have; at the
\* second-to-last step a README-like or result-like artifact exists; at the
\* last step the final summary, the final markdown and a summary artifact exist;
\* at the last step the last runLog entry is not one of QA
Compliant(previousState, state) ==
  LET totalSteps == Len(state.state.steps)
      stepNum == _detectStepNumber(state)
      n == Len(state.runLog)
  IN  /\ (stepNum >= 1 /\ stepNum <= totalSteps - 1)
           => Keys(state.state.artifacts) \ Keys(previousState.state.artifacts) # {}
      /\ (totalSteps > 0 /\ stepNum = totalSteps - 1)
           => \/ HasKey(state.state.artifacts, IsReadmeKey)
              \/ HasKey(state.state.artifacts, IsResultFileKey)
      /\ (totalSteps > 0 /\ stepNum = totalSteps)
           => /\ Trim(state.finalResultSummary) # ""
              /\ Trim(state.finalResultMarkdown) # ""
              /\ HasKey(state.state.artifacts, IsSummaryKey)
      /\ (totalSteps > 0 /\ stepNum >= totalSteps /\ n > 0)
           => ToLower(state.runLog[n].agent) # "qa"

\* C8: the guard applied to the output it gave for a compliant state gives that
\* output again: status, runLog, notes, artifacts and final-result fields.
C8_GuardTwiceGivesSameOutput ==
  [][(pc = "guard" /\ i = 1 /\ Compliant(currentState, workflowState))
     => /\ returned'.status = returned.status
        /\ returned'.runLog = returned.runLog
        /\ returned'.state.notes = returned.state.notes
        /\ returned'.state.artifacts = returned.state.artifacts
        /\ returned'.finalResultMarkdown = returned.finalResultMarkdown
        /\ returned'.finalResultSummary = returned.finalResultSummary
        /\ returned'.resultType = returned.resultType]_vars

\* the input of the guard is at the last step and has its final summary, its
\* final markdown and a summary artifact
FinalsPresent(state) ==
  /\ Len(state.state.steps) > 0
  /\ _detectStepNumber(state) = Len(state.state.steps)
  /\ Trim(state.finalResultSummary) # ""
  /\ Trim(state.finalResultMarkdown) # ""
  /\ HasKey(state.state.artifacts, IsSummaryKey)

\* C12: the guard applied to a state at the last step that has its final
\* summary, its final markdown and a summary artifact returns status completed.
C12_FinalsPresentGivesCompleted ==
  (pc = "guard" /\ i >= 1 /\ FinalsPresent(workflowState))
    => returned.status = "completed"

\* C13 as stated: the guard applied at the last step to a state without a
\* README-like artifact returns a state that has one.
C13_ReadmeSynthesizedAtLastStep ==
  (/\ pc = "guard"
   /\ i >= 1
   /\ Len(workflowState.state.steps) > 0
   /\ _detectStepNumber(workflowState) = Len(workflowState.state.steps)
   /\ ~HasKey(workflowState.state.artifacts, IsReadmeKey))
    => HasKey(returned.state.artifacts, IsReadmeKey)

\* C29: the guard applied to a reply at a step before the last whose artifact
\* keys were all present in the previous state returns status running, with
\* the QA entry and the note that demand a new artifact.
C29_NoNewKeyIsWarned ==
  (/\ pc = "guard"
   /\ i = 1
   /\ _detectStepNumber(workflowState) >= 1
   /\ _detectStepNumber(workflowState) < Len(workflowState.state.steps)
   /\ Keys(workflowState.state.artifacts) \subseteq Keys(currentState.state.artifacts))
    => /\ returned.status = "running"
       /\ \E k \in 1..Len(returned.runLog) :
            /\ returned.runLog[k].agent = "QA"
            /\ Includes(returned.runLog[k].summary, "No new artifacts created")
       /\ Includes(returned.state.notes, "No new artifacts created")

\* C30: the guard applied at the second-to-last step appends README.md to the
\* artifacts when none of them is README-like or result.*-like, and returns the
\* artifacts as they were when one of them is.
C30_ReadmeAddedOnlyWithoutAssembly ==
  (/\ pc = "guard"
   /\ i = 1
   /\ Len(workflowState.state.steps) > 0
   /\ _detectStepNumber(workflowState) = Len(workflowState.state.steps) - 1)
    => LET given == workflowState.state.artifacts
           out == returned.state.artifacts
       IN  IF ~HasKey(given, IsReadmeKey) /\ ~HasKey(given, IsResultFileKey)
           THEN /\ Len(out) = Len(given) + 1
                /\ SubSeq(out, 1, Len(given)) = given
                /\ out[Len(out)].key = "README.md"
           ELSE out = given

\* C36: the state the guard returns after it appended an auto-assembled
\* README.md has a Worker entry and a note that record the assembly, and the
\* state it returns after it appended result_summary.md has a Worker entry and
\* a note that record the generated summary.
C36_AutoCorrectionsAreLogged ==
  (pc = "guard" /\ i = 1)
    => LET given == workflowState.state.artifacts
           out == returned.state.artifacts
           added(key) == /\ Len(out) = Len(given) + 1
                         /\ out[Len(out)].key = key
           recorded(words) ==
             /\ \E k \in 1..Len(returned.runLog) :
                  /\ returned.runLog[k].agent = "Worker"
                  /\ Includes(returned.runLog[k].summary, words)
             /\ Includes(returned.state.notes, words)
       IN  /\ added("README.md") => recorded("Auto-assembled README.md")
           /\ added("result_summary.md") => recorded("Auto-generated final summary")

\* the guard was applied at the second-to-last step to a state without a
\* README-like artifact
AssemblyDue ==
  /\ pc = "guard"
  /\ i >= 1
  /\ Len(workflowState.state.steps) > 0
  /\ _detectStepNumber(workflowState) = Len(workflowState.state.steps) - 1
  /\ ~HasKey(workflowState.state.artifacts, IsReadmeKey)

\* C13, amended: the guard applied at the second-to-last step to a state
\* without a README-like artifact appends README.md, headed by the goal, with a
\* section for exactly the artifacts that are not process artifacts and have a
\* non-blank value, and returns status running; the guard applied at the last
\* step returns status completed only with a final summary, a final markdown
\* and a summary artifact in the returned state.
C13_ReadmeSynthesizedBeforeLastStep ==
  /\ AssemblyDue =>
       LET given == workflowState.state.artifacts
           out == returned.state.artifacts
       IN  /\ Len(out) = Len(given) + 1
           /\ SubSeq(out, 1, Len(given)) = given
           /\ out[Len(out)].key = "README.md"
           /\ StartsWith(out[Len(out)].value, "# " \o workflowState.goal \o "\n\n")
           /\ \A k \in 1..Len(given) :
                Includes(out[Len(out)].value,
                         "## " \o given[k].key \o "\n" \o Trim(given[k].value) \o "\n")
                  <=> (~IsProcessKey(given[k].key) /\ Trim(given[k].value) # "")
           /\ returned.status = "running"
  /\ (/\ pc = "guard"
      /\ i >= 1
      /\ Len(workflowState.state.steps) > 0
      /\ _detectStepNumber(workflowState) = Len(workflowState.state.steps)
      /\ returned.status = "completed")
       => /\ Trim(returned.finalResultSummary) # ""
          /\ Trim(returned.finalResultMarkdown) # ""
          /\ HasKey(returned.state.artifacts, IsSummaryKey)

\* a README was synthesized over a process artifact and a content artifact
C13_Witness ==
  /\ AssemblyDue
  /\ i = 1
  /\ HasKey(workflowState.state.artifacts, IsPlanMdKey)
  /\ \E k \in 1..Len(workflowState.state.artifacts) :
       ~IsProcessKey(workflowState.state.artifacts[k].key)
  /\ HasKey(returned.state.artifacts, IsReadmeKey)

====
